---------------------------- MODULE Spec2Model ----------------------------
(***************************************************************************)
(* A model of nilhmm: the three-state introgression HMM of                 *)
(* nilhmm/core.py (introgression_hmm), its legacy twin                     *)
(* File_S11_callIntrogressions.py (call_intros), and the parameter grid    *)
(* search of nilhmm/grid_search.py (optimize_parameters).                  *)
(*                                                                         *)
(* Probabilities are exact rationals.  Every parameter is an integer       *)
(* number of 1/Den units (nir = 1 means 0.01).  The emission matrix is a   *)
(* matrix of integer numerators over the denominator EmiDen, a transition  *)
(* entry is a fraction [n, d] with the numerator and denominator the       *)
(* source's expression has, and a path probability is an arbitrary         *)
(* precision natural number (a little-endian sequence of base-Base         *)
(* digits).  hmmlearn's Viterbi works on logarithms of these numbers; the  *)
(* logarithm is monotone, so comparing the products is comparing the sums  *)
(* of logarithms (floating-point rounding is not modelled).                *)
(*                                                                         *)
(* Column indices are 1-based here (Python's column j is column j+1).      *)
(***************************************************************************)
EXTENDS Integers, Sequences, FiniteSets, TLC

VARIABLES
    pc,           \* position of the modelled call
    params,       \* the eight HMM parameters of the current call
    geno,         \* genotype matrix: a sequence of rows, each a sequence of cells
    marker_dict,  \* chromosome -> sequence of column indices
    model,        \* the hmmlearn model object (startprob_, transmat_, emissionprob_)
    chromPos,     \* how many entries of the chromosome list the first loop has done
    results,      \* results[chrom]: one decoded row per individual
    nil_calls,    \* the returned call matrix
    raised,       \* the exception that ended the call ("none" while there is none)
    nanPath,      \* what a decode over a model holding NaN returns (build dependent)
    grid,         \* optimize_parameters: the candidate lists and base_r
    current,      \* optimize_parameters: the loop counter
    table,        \* optimize_parameters: the list of result rows
    warnings,     \* optimize_parameters: the logged failures
    groups,       \* evaluate_chip_results: the rows of the B73, donor and NIL groups
    best_params,  \* select_best_parameters: the criteria and the returned dict
    vcf,          \* the lines of the VCF file
    sample_names, \* parse_vcf_header: the returned list
    marker_info,  \* read_vcf: one record per kept variant, in file order
    summary_stats \* write_results: the summary records

vars == <<pc, params, geno, marker_dict, model, chromPos, results, nil_calls,
          raised, nanPath, grid, current, table, warnings, groups, best_params,
          vcf, sample_names, marker_info, summary_stats>>

hmmVars == <<params, geno, marker_dict, model, chromPos, results, nil_calls,
             raised, nanPath>>
gridVars == <<grid, current, table, warnings, groups, best_params>>
ioVars == <<vcf, sample_names, marker_info, summary_stats>>

-----------------------------------------------------------------------------
(* Units and bounds *)

\* one parameter unit is 1/Den: the defaults of introgression_hmm have two decimals
Den == 100

\* base of the digits of a path probability
Base == 10000

\* the longest chromosome (in markers) of the decoder specification
MaxLen == 3

States == 0 .. 2
Symbols == 0 .. 3

\* a genotype cell that holds np.nan (any integer that is no genotype code)
NaN == -1000

-----------------------------------------------------------------------------
(* Arithmetic on naturals of any size *)

RECURSIVE Gcd(_, _)
Gcd(a, b) == IF b = 0 THEN a ELSE Gcd(b, a % b)

Abs(x) == IF x < 0 THEN -x ELSE x

Lcm(a, b) == IF a = 0 \/ b = 0 THEN 0 ELSE (a \div Gcd(a, b)) * b

RECURSIVE BigOfInt(_)
BigOfInt(n) == IF n = 0 THEN <<>> ELSE <<n % Base>> \o BigOfInt(n \div Base)

RECURSIVE BigMulSmall(_, _, _)
BigMulSmall(a, k, carry) ==
    IF a = <<>> THEN BigOfInt(carry)
    ELSE LET v == Head(a) * k + carry
         IN  <<v % Base>> \o BigMulSmall(Tail(a), k, v \div Base)

RECURSIVE BigAdd(_, _, _)
BigAdd(a, b, carry) ==
    IF a = <<>> /\ b = <<>> THEN BigOfInt(carry)
    ELSE LET x == IF a = <<>> THEN 0 ELSE Head(a)
             y == IF b = <<>> THEN 0 ELSE Head(b)
             v == x + y + carry
         IN  <<v % Base>> \o BigAdd(IF a = <<>> THEN a ELSE Tail(a),
                                    IF b = <<>> THEN b ELSE Tail(b),
                                    v \div Base)

RECURSIVE BigMul(_, _)
BigMul(a, b) ==
    IF a = <<>> \/ b = <<>> THEN <<>>
    ELSE LET low  == IF Head(b) = 0 THEN <<>> ELSE BigMulSmall(a, Head(b), 0)
             rest == BigMul(a, Tail(b))
         IN  BigAdd(low, IF rest = <<>> THEN <<>> ELSE <<0>> \o rest, 0)

BigTimes(a, n) == BigMul(a, BigOfInt(n))

RECURSIVE BigLessFrom(_, _, _)
BigLessFrom(a, b, k) ==
    IF k = 0 THEN FALSE
    ELSE IF a[k] # b[k] THEN a[k] < b[k]
    ELSE BigLessFrom(a, b, k - 1)

BigLess(a, b) ==
    IF Len(a) # Len(b) THEN Len(a) < Len(b) ELSE BigLessFrom(a, b, Len(a))

-----------------------------------------------------------------------------
(* The matrix builder: introgression_hmm, core.py lines 57-100 *)

\* a fraction with a positive denominator
Frac(n, d) == IF d < 0 THEN [n |-> -n, d |-> -d] ELSE [n |-> n, d |-> d]

f_0(prm) == Den - prm.f_1 - prm.f_2

p00(prm) == Frac(Den - prm.r, Den)
p01(prm) == Frac(prm.r * prm.f_1, Den * (prm.f_1 + prm.f_2))
p02(prm) == Frac(prm.r * prm.f_2, Den * (prm.f_1 + prm.f_2))
p10(prm) == Frac(prm.r * f_0(prm), Den * (f_0(prm) + prm.f_2))
p11(prm) == Frac(Den - prm.r, Den)
\* line 68 with the divisor of line 69
p12_OtherDivisor(prm) == Frac(prm.r * prm.f_2, Den * (f_0(prm) + prm.f_1))
p12(prm) == Frac(prm.r * prm.f_2, Den * (f_0(prm) + prm.f_2))
p20(prm) == Frac(prm.r * f_0(prm), Den * (f_0(prm) + prm.f_1))
p21(prm) == Frac(prm.r * prm.f_1, Den * (f_0(prm) + prm.f_1))
p22(prm) == Frac(Den - prm.r, Den)

\* Python's float division raises ZeroDivisionError on a zero divisor
\* (lines 64-65, 66 and 68, 69-70)
ZeroDivision(prm) ==
    \/ prm.f_1 + prm.f_2 = 0
    \/ f_0(prm) + prm.f_2 = 0
    \/ f_0(prm) + prm.f_1 = 0

\* a float NaN, as a fraction
NaNFrac == [n |-> 0, d |-> 0]

\* a transition matrix whose first row has its diagonal entry misplaced
tmat_RowZeroSwapped(prm) ==
    [i \in States |->
        [j \in States |->
            CASE i = 0 /\ j = 0 -> p01(prm)
              [] i = 0 /\ j = 1 -> p00(prm)
              [] i = 0 /\ j = 2 -> p02(prm)
              [] i = 1 /\ j = 0 -> p10(prm)
              [] i = 1 /\ j = 1 -> p11(prm)
              [] i = 1 /\ j = 2 -> p12(prm)
              [] i = 2 /\ j = 0 -> p20(prm)
              [] i = 2 /\ j = 1 -> p21(prm)
              [] OTHER          -> p22(prm)]]

\* r is the only parameter that may be a float NaN here (optimize_parameters'
\* r = base_r * r_mult with a NaN multiplier); every entry of tmat has r in it
tmat(prm) ==
    [i \in States |->
        [j \in States |->
            IF prm.r = NaN THEN NaNFrac ELSE
            CASE i = 0 /\ j = 0 -> p00(prm)
              [] i = 0 /\ j = 1 -> p01(prm)
              [] i = 0 /\ j = 2 -> p02(prm)
              [] i = 1 /\ j = 0 -> p10(prm)
              [] i = 1 /\ j = 1 -> p11(prm)
              [] i = 1 /\ j = 2 -> p12(prm)
              [] i = 2 /\ j = 0 -> p20(prm)
              [] i = 2 /\ j = 1 -> p21(prm)
              [] OTHER          -> p22(prm)]]

\* every emission entry is a numerator over EmiDen = 2 * Den^4: the factor 2
\* carries the source's 0.5
EmiDen == 2 * Den * Den * Den * Den

emiRow0(prm) ==
    LET germ == prm.germ  p == prm.p  mr == prm.mr
    IN  [o \in Symbols |->
            CASE o = 0 -> 2 * (Den - germ) * (Den - mr) * Den * Den
              [] o = 1 -> 2 * p * germ * (Den - mr) * Den
              [] o = 2 -> 2 * (Den - p) * germ * (Den - mr) * Den
              [] OTHER -> 2 * mr * Den * Den * Den]

\* line 84 without the factor 0.5 on the heterozygote's miscalls
emiRow1_WholeGert(prm) ==
    LET nir == prm.nir  germ == prm.germ  gert == prm.gert
        p == prm.p  mr == prm.mr
    IN  [o \in Symbols |->
            CASE o = 0 -> (2 * (Den - nir) * gert * Den
                            + 2 * nir * (Den - germ) * Den) * (Den - mr)
              [] o = 1 -> (2 * (Den - nir) * (Den - gert) * Den
                            + 2 * nir * germ * p) * (Den - mr)
              [] o = 2 -> (2 * (Den - nir) * gert * Den
                            + 2 * nir * germ * (Den - p)) * (Den - mr)
              [] OTHER -> 2 * mr * Den * Den * Den]

\* line 85 without the factor 1 - mr on the observed calls
emiRow1_NotScaled(prm) ==
    LET nir == prm.nir  germ == prm.germ  gert == prm.gert
        p == prm.p  mr == prm.mr
    IN  [o \in Symbols |->
            CASE o = 0 -> ((Den - nir) * gert * Den
                            + 2 * nir * (Den - germ) * Den) * Den
              [] o = 1 -> (2 * (Den - nir) * (Den - gert) * Den
                            + 2 * nir * germ * p) * Den
              [] o = 2 -> ((Den - nir) * gert * Den
                            + 2 * nir * germ * (Den - p)) * Den
              [] OTHER -> 2 * mr * Den * Den * Den]

emiRow1(prm) ==
    LET nir == prm.nir  germ == prm.germ  gert == prm.gert
        p == prm.p  mr == prm.mr
    IN  [o \in Symbols |->
            CASE o = 0 -> ((Den - nir) * gert * Den
                            + 2 * nir * (Den - germ) * Den) * (Den - mr)
              [] o = 1 -> (2 * (Den - nir) * (Den - gert) * Den
                            + 2 * nir * germ * p) * (Den - mr)
              [] o = 2 -> ((Den - nir) * gert * Den
                            + 2 * nir * germ * (Den - p)) * (Den - mr)
              [] OTHER -> 2 * mr * Den * Den * Den]

\* line 86 with p where the homozygous miscall has 1 - p
emiRow2_ErrorToHet(prm) ==
    LET nir == prm.nir  germ == prm.germ  p == prm.p  mr == prm.mr
    IN  [o \in Symbols |->
            CASE o = 0 -> (2 * (Den - nir) * germ * p
                            + 2 * nir * (Den - germ) * Den) * (Den - mr)
              [] o = 1 -> 2 * germ * p * (Den - mr) * Den
              [] o = 2 -> (2 * (Den - nir) * (Den - germ) * Den
                            + 2 * nir * germ * (Den - p)) * (Den - mr)
              [] OTHER -> 2 * mr * Den * Den * Den]

emiRow2(prm) ==
    LET nir == prm.nir  germ == prm.germ  p == prm.p  mr == prm.mr
    IN  [o \in Symbols |->
            CASE o = 0 -> (2 * (Den - nir) * germ * (Den - p)
                            + 2 * nir * (Den - germ) * Den) * (Den - mr)
              [] o = 1 -> 2 * germ * p * (Den - mr) * Den
              [] o = 2 -> (2 * (Den - nir) * (Den - germ) * Den
                            + 2 * nir * germ * (Den - p)) * (Den - mr)
              [] OTHER -> 2 * mr * Den * Den * Den]

emimat(prm) ==
    [s \in States |->
        CASE s = 0 -> emiRow0(prm)
          [] s = 1 -> emiRow1(prm)
          [] OTHER -> emiRow2(prm)]

startprob(prm) ==
    [s \in States |-> CASE s = 0 -> f_0(prm) [] s = 1 -> prm.f_1 [] OTHER -> prm.f_2]

\* no model object: the builder has not run, or it raised
NoModel == [built |-> FALSE]

\* the model object after lines 90-100
BuildModel(prm) ==
    IF ZeroDivision(prm) THEN NoModel
    ELSE [built         |-> TRUE,
          startprob_    |-> startprob(prm),
          transmat_     |-> tmat(prm),
          emissionprob_ |-> emimat(prm)]

\* the sum of a row of fractions is one
FracRowSumsToOne(row) ==
    LET L == Lcm(Lcm(row[0].d, row[1].d), row[2].d)
    IN  /\ L > 0
        /\ row[0].n * (L \div row[0].d) + row[1].n * (L \div row[1].d)
             + row[2].n * (L \div row[2].d) = L

EmiRowSum(row) == row[0] + row[1] + row[2] + row[3]

\* hmmlearn's _check, run by predict before decoding: startprob_ and every row
\* of transmat_ must sum to 1 (np.allclose), else ValueError; a NaN sums to NaN
ModelCheckRaises(m) ==
    \/ m.startprob_[0] + m.startprob_[1] + m.startprob_[2] # Den
    \/ \E i \in States : ~ FracRowSumsToOne(m.transmat_[i])

\* np.log of a negative entry is NaN (a zero entry is -inf, which orders)
HasNaN(m) ==
    \/ \E s \in States : m.startprob_[s] < 0
    \/ \E i, j \in States : m.transmat_[i][j].n < 0
    \/ \E s \in States : \E o \in Symbols : m.emissionprob_[s][o] < 0

ValidParams(prm) ==
    /\ \A k \in DOMAIN prm : prm[k] >= 0 /\ prm[k] <= Den
    /\ prm.f_1 + prm.f_2 <= Den

-----------------------------------------------------------------------------
(* The decoder: model.predict on one individual's one-hot rows of one        *)
(* chromosome (core.py lines 110-113, File_S11 lines 15-18).  hmmlearn's      *)
(* Viterbi: a forward pass keeping the best score into each state, then a    *)
(* traceback from the first best final state; every argmax takes the first   *)
(* maximum.                                                                  *)

\* np.identity(4)[np.nan_to_num(row).astype(int)]: NaN becomes 0, a negative
\* index counts from the end, an index outside -4..3 raises IndexError
OneHotIndex(cell) ==
    IF cell = NaN THEN 0
    ELSE IF cell < 0 THEN cell + 4
    ELSE cell

OneHotRaises(cell) == cell # NaN /\ (cell < -4 \/ cell > 3)

\* the common denominator of the transition entries, and their numerators over it
TransLcm(m) ==
    LET t == m.transmat_
    IN  Lcm(Lcm(Lcm(Lcm(t[0][0].d, t[0][1].d), Lcm(t[0][2].d, t[1][0].d)),
                Lcm(Lcm(t[1][1].d, t[1][2].d), Lcm(t[2][0].d, t[2][1].d))),
            t[2][2].d)

\* tw[i + 1][j + 1]: a tuple of tuples (rows of the lattice and of the weights
\* are tuples, state s at position s + 1)
TransWeights(m) ==
    LET L == TransLcm(m)
        W(i, j) == m.transmat_[i][j].n * (L \div m.transmat_[i][j].d)
    IN  << <<W(0, 0), W(0, 1), W(0, 2)>>,
           <<W(1, 0), W(1, 1), W(1, 2)>>,
           <<W(2, 0), W(2, 1), W(2, 2)>> >>

\* the first index (a state) of the largest of three numbers
ArgMaxFirst(v) ==
    IF BigLess(v[1], v[2])
    THEN (IF BigLess(v[2], v[3]) THEN 2 ELSE 1)
    ELSE (IF BigLess(v[1], v[3]) THEN 2 ELSE 0)

\* the best score into state j from the previous lattice row
BestInto(last, tw, j) ==
    LET cand == << BigTimes(last[1], tw[1][j + 1]),
                   BigTimes(last[2], tw[2][j + 1]),
                   BigTimes(last[3], tw[3][j + 1]) >>
    IN  cand[ArgMaxFirst(cand) + 1]

RECURSIVE ViterbiLattice(_, _, _)
ViterbiLattice(m, tw, obs) ==
    IF Len(obs) = 1
    THEN << << BigTimes(BigOfInt(m.startprob_[0]), m.emissionprob_[0][obs[1]]),
               BigTimes(BigOfInt(m.startprob_[1]), m.emissionprob_[1][obs[1]]),
               BigTimes(BigOfInt(m.startprob_[2]), m.emissionprob_[2][obs[1]]) >> >>
    ELSE LET prev == ViterbiLattice(m, tw, SubSeq(obs, 1, Len(obs) - 1))
             last == prev[Len(prev)]
             o    == obs[Len(obs)]
         IN  Append(prev,
                    << BigTimes(BestInto(last, tw, 0), m.emissionprob_[0][o]),
                       BigTimes(BestInto(last, tw, 1), m.emissionprob_[1][o]),
                       BigTimes(BestInto(last, tw, 2), m.emissionprob_[2][o]) >>)

RECURSIVE Traceback(_, _, _, _)
Traceback(lat, tw, t, where_from) ==
    IF t = 0 THEN <<>>
    ELSE LET s == ArgMaxFirst(<< BigTimes(lat[t][1], tw[1][where_from + 1]),
                                 BigTimes(lat[t][2], tw[2][where_from + 1]),
                                 BigTimes(lat[t][3], tw[3][where_from + 1]) >>)
         IN  Append(Traceback(lat, tw, t - 1, s), s)

\* the joint probability of a state path and the observations, as a numerator
RECURSIVE JointWeight(_, _, _, _)
JointWeight(m, tw, path, obs) ==
    IF Len(path) = 1
    THEN BigTimes(BigOfInt(m.startprob_[path[1]]), m.emissionprob_[path[1]][obs[1]])
    ELSE LET n == Len(path)
         IN  BigTimes(BigTimes(JointWeight(m, tw, SubSeq(path, 1, n - 1),
                                           SubSeq(obs, 1, n - 1)),
                               tw[path[n - 1] + 1][path[n] + 1]),
                      m.emissionprob_[path[n]][obs[n]])

StatePaths(n) == [1 .. n -> States]

\* the summed joint probability of a set of state paths
RECURSIVE SumJoint(_, _, _, _)
SumJoint(m, tw, paths, obs) ==
    IF paths = {} THEN <<>>
    ELSE LET q == CHOOSE x \in paths : TRUE
         IN  BigAdd(JointWeight(m, tw, q, obs), SumJoint(m, tw, paths \ {q}, obs), 0)

\* the probability that marker t is in state s, given the observations (times a
\* constant): what choosing each marker's state independently goes by
Marginal(m, tw, obs, t, s) ==
    SumJoint(m, tw, { q \in StatePaths(Len(obs)) : q[t] = s }, obs)

\* each marker's most probable state, chosen independently of the others
PosteriorPath(m, obs) ==
    LET tw == TransWeights(m)
    IN  [t \in 1 .. Len(obs) |->
            ArgMaxFirst(<< Marginal(m, tw, obs, t, 0), Marginal(m, tw, obs, t, 1),
                           Marginal(m, tw, obs, t, 2) >>)]

\* the state with the largest emission probability of one observed call
EmissionBest(m, o) ==
    ArgMaxFirst(<< BigOfInt(m.emissionprob_[0][o]), BigOfInt(m.emissionprob_[1][o]),
                   BigOfInt(m.emissionprob_[2][o]) >>)

\* a decoder that goes by the emission probabilities alone
EmissionPath(m, obs) == [t \in 1 .. Len(obs) |-> EmissionBest(m, obs[t])]

ViterbiPath(m, obs) ==
    LET tw   == TransWeights(m)
        lat  == ViterbiLattice(m, tw, obs)
        n    == Len(obs)
        last == ArgMaxFirst(lat[n])
    IN  Append(Traceback(lat, tw, n - 1, last), last)

\* the decoded states of one row; with a NaN in the model the result depends on
\* the hmmlearn build, and is the oracle's path
Predict(m, row, oracle) ==
    IF HasNaN(m) THEN [k \in 1 .. Len(row) |-> oracle[((k - 1) % Len(oracle)) + 1]]
    ELSE ViterbiPath(m, [k \in 1 .. Len(row) |-> OneHotIndex(row[k])])

-----------------------------------------------------------------------------
(* The genome assembler: introgression_hmm, core.py lines 102-126 *)

\* the chromosome list both loops run over (core.py lines 104 and 117)
NumChroms == 10
ChromList == [k \in 1 .. NumChroms |-> k]

NumCols(g) == IF Len(g) = 0 THEN 0 ELSE Len(g[1])

\* geno[:, marker_dict[chrom]] for one row
RestrictRow(row, idxs) == [k \in 1 .. Len(idxs) |-> row[idxs[k]]]

\* the exception one iteration of the first loop raises, "none" if it completes:
\* marker_dict[chrom] of a missing key, a column index outside the matrix,
\* model.predict on an empty or unindexable row
ChromRaises(m, g, md, chrom) ==
    IF chrom \notin DOMAIN md THEN "KeyError"
    ELSE IF \E k \in 1 .. Len(md[chrom]) :
                md[chrom][k] < 1 \/ md[chrom][k] > NumCols(g)
    THEN "IndexError"
    ELSE IF Len(g) = 0 THEN "none"
    ELSE IF \E k \in 1 .. Len(md[chrom]) : OneHotRaises(g[1][md[chrom][k]])
    THEN "IndexError"
    ELSE IF ModelCheckRaises(m) \/ Len(md[chrom]) = 0 THEN "ValueError"
    ELSE IF \E i \in 1 .. Len(g) : \E k \in 1 .. Len(md[chrom]) :
                OneHotRaises(g[i][md[chrom][k]])
    THEN "IndexError"
    ELSE "none"

\* line 112 with geno_current_chr[0, :]: every individual gets the decoding of
\* the first individual's row
DecodeChrom_FirstRow(m, g, md, chrom, oracle) ==
    [i \in 1 .. Len(g) |-> Predict(m, RestrictRow(g[1], md[chrom]), oracle)]

\* results[chrom] after the inner loop: one decoded row per individual
DecodeChrom(m, g, md, chrom, oracle) ==
    [i \in 1 .. Len(g) |-> Predict(m, RestrictRow(g[i], md[chrom]), oracle)]

\* one individual's rows of results, concatenated in chromosome-list order
RECURSIVE ConcatChroms(_, _, _)
ConcatChroms(res, i, k) ==
    IF k = 0 THEN <<>>
    ELSE ConcatChroms(res, i, k - 1) \o res[ChromList[k]][i]

\* lines 116-121: np.concatenate per chromosome, then across chromosomes
PackResults(res, n) == [i \in 1 .. n |-> ConcatChroms(res, i, NumChroms)]

\* the position in the chromosome list of the first iteration that raises, 0 if none
RECURSIVE FirstRaising(_, _, _, _)
FirstRaising(m, g, md, k) ==
    IF k > NumChroms THEN 0
    ELSE IF ChromRaises(m, g, md, ChromList[k]) # "none" THEN k
    ELSE FirstRaising(m, g, md, k + 1)

\* introgression_hmm as a function (return_calls = True, as every caller has it):
\* the exception it raises or the call matrix it returns
IntrogressionHmm(g, md, prm, oracle) ==
    IF ZeroDivision(prm) THEN [raised |-> "ZeroDivisionError", calls |-> <<>>]
    ELSE LET m   == BuildModel(prm)
             bad == FirstRaising(m, g, md, 1)
         IN  IF bad # 0
             THEN [raised |-> ChromRaises(m, g, md, ChromList[bad]), calls |-> <<>>]
             ELSE IF Len(g) = 0 THEN [raised |-> "ValueError", calls |-> <<>>]
             ELSE LET res == [c \in 1 .. NumChroms |->
                                 DecodeChrom(m, g, md, c, oracle)]
                  IN  [raised |-> "none", calls |-> PackResults(res, Len(g))]

-----------------------------------------------------------------------------
(* introgression_hmm step by step: the builder, one action per iteration of  *)
(* the chromosome loop, the packing                                          *)

\* lines 57-100, and line 103
Build ==
    /\ pc = "build"
    /\ IF ZeroDivision(params)
       THEN /\ raised' = "ZeroDivisionError"
            /\ pc' = "raised"
            /\ UNCHANGED model
       ELSE /\ model' = BuildModel(params)
            /\ pc' = "chroms"
            /\ UNCHANGED raised
    /\ UNCHANGED <<params, geno, marker_dict, chromPos, results, nil_calls, nanPath>>
    /\ UNCHANGED gridVars
    /\ UNCHANGED ioVars

\* np.nan_to_num(copy=False) on the chromosome's columns of geno itself
NanToNumInPlace(g, idxs) ==
    [i \in 1 .. Len(g) |->
        [j \in 1 .. Len(g[i]) |->
            IF g[i][j] = NaN /\ (\E k \in 1 .. Len(idxs) : idxs[k] = j)
            THEN 0 ELSE g[i][j]]]

\* the first loop writing the NaN-free observations back into geno
ChromStep_InPlace ==
    /\ pc = "chroms"
    /\ chromPos < NumChroms
    /\ LET chrom == ChromList[chromPos + 1]
           exc   == ChromRaises(model, geno, marker_dict, chrom)
       IN  IF exc # "none"
           THEN /\ raised' = exc
                /\ pc' = "raised"
                /\ results' = (chrom :> <<>>) @@ results
                /\ UNCHANGED <<chromPos, geno>>
           ELSE /\ results' = (chrom :> DecodeChrom(model, geno, marker_dict, chrom,
                                                     nanPath)) @@ results
                /\ chromPos' = chromPos + 1
                /\ UNCHANGED <<raised, pc>>
                /\ geno' = NanToNumInPlace(geno, marker_dict[chrom])
    /\ UNCHANGED <<params, marker_dict, model, nil_calls, nanPath>>
    /\ UNCHANGED gridVars
    /\ UNCHANGED ioVars

\* lines 104-113 for chrom = ChromList[chromPos + 1]; results[chrom] = [] is
\* assigned before anything can raise
ChromStep ==
    /\ pc = "chroms"
    /\ chromPos < NumChroms
    /\ LET chrom == ChromList[chromPos + 1]
           exc   == ChromRaises(model, geno, marker_dict, chrom)
       IN  IF exc # "none"
           THEN /\ raised' = exc
                /\ pc' = "raised"
                /\ results' = (chrom :> <<>>) @@ results
                /\ UNCHANGED chromPos
           ELSE /\ results' = (chrom :> DecodeChrom(model, geno, marker_dict, chrom,
                                                     nanPath)) @@ results
                /\ chromPos' = chromPos + 1
                /\ UNCHANGED <<raised, pc>>
    /\ UNCHANGED <<params, geno, marker_dict, model, nil_calls, nanPath>>
    /\ UNCHANGED gridVars
    /\ UNCHANGED ioVars

\* lines 115-124; np.concatenate of an empty list raises ValueError
Pack ==
    /\ pc = "chroms"
    /\ chromPos = NumChroms
    /\ IF Len(geno) = 0
       THEN /\ raised' = "ValueError"
            /\ pc' = "raised"
            /\ UNCHANGED nil_calls
       ELSE /\ nil_calls' = PackResults(results, Len(geno))
            /\ pc' = "returned"
            /\ UNCHANGED raised
    /\ UNCHANGED <<params, geno, marker_dict, model, chromPos, results, nanPath>>
    /\ UNCHANGED gridVars
    /\ UNCHANGED ioVars

NextHmm == Build \/ ChromStep \/ Pack

-----------------------------------------------------------------------------
(* The decoder on its own: one individual, one chromosome *)

Prm(nir, germ, gert, p, mr, r, f1, f2) ==
    [nir |-> nir, germ |-> germ, gert |-> gert, p |-> p, mr |-> mr, r |-> r,
     f_1 |-> f1, f_2 |-> f2]

\* the defaults of introgression_hmm (core.py lines 12-19)
DefaultParams == Prm(1, 5, 10, 50, 15, 1, 25, 5)

\* parameter sets the decoder is run with: the defaults, the spec's scenarios,
\* high error rates, high recombination, and boundaries (r = 0, r = 1, mr = 0,
\* germ = gert = 0, nir = 1, a vanishing start probability)
DecodeParamSets ==
    { DefaultParams,
      Prm(1, 5, 10, 50, 0, 1, 25, 5),
      Prm(1, 90, 90, 50, 0, 1, 25, 5),
      Prm(10, 10, 10, 50, 15, 1, 25, 5),
      Prm(1, 5, 10, 50, 15, 50, 25, 5),
      Prm(1, 5, 10, 50, 15, 0, 25, 5),
      Prm(1, 5, 10, 50, 15, 100, 25, 5),
      Prm(0, 0, 0, 50, 15, 10, 25, 5),
      Prm(100, 5, 10, 25, 50, 10, 30, 30),
      Prm(1, 5, 10, 0, 15, 30, 50, 50),
      Prm(50, 30, 50, 75, 100, 20, 40, 20),
      Prm(2, 8, 15, 50, 20, 25, 5, 60),
      Prm(1, 30, 10, 50, 15, 1, 1, 1) }

ObsRows == UNION { [1 .. n -> Symbols] : n \in 1 .. MaxLen }

NoGrid == [on |-> FALSE]

\* select_best_parameters has not been called
NoBest == [criteria |-> ""]

\* no evaluate_chip_results call is modelled
NoGroups == [B73Index |-> {}, parentIndices |-> {}, NILIndices |-> {}]

InitDecode ==
    /\ pc = "decode"
    /\ params \in DecodeParamSets
    /\ geno \in { <<row>> : row \in ObsRows }
    /\ marker_dict = <<>>
    /\ model = BuildModel(params)
    /\ chromPos = 0
    /\ results = <<>>
    /\ nil_calls = <<>>
    /\ raised = "none"
    /\ nanPath = [k \in 1 .. MaxLen |-> 0]
    /\ grid = NoGrid
    /\ current = 0
    /\ table = <<>>
    /\ warnings = <<>>
    /\ groups = NoGroups
    /\ best_params = NoBest
    /\ vcf = <<>>
    /\ sample_names = <<>>
    /\ marker_info = <<>>
    /\ summary_stats = <<>>

\* call_intros_one_chrom(i, hmm_model, geno_mat) for the only row
CallIntrosOneChrom ==
    /\ pc = "decode"
    /\ pc' = "decoded"
    /\ results' = << Predict(model, geno[1], nanPath) >>
    /\ UNCHANGED <<params, geno, marker_dict, model, chromPos, nil_calls, raised,
                   nanPath>>
    /\ UNCHANGED gridVars
    /\ UNCHANGED ioVars

NextDecode == CallIntrosOneChrom

SpecDecode == InitDecode /\ [][NextDecode]_vars

(* C3: for one individual and one chromosome the decoded path has the length  *)
(* of the observation sequence and its joint probability                      *)
(* start(s1) emit(s1,o1) prod_t trans(s_t-1,s_t) emit(s_t,o_t), with start    *)
(* probabilities (1-f1-f2, f1, f2), is at least that of every one of the 3^n  *)
(* state paths.                                                               *)
C3_DecodedPathIsJointlyMostProbable ==
    pc = "decoded" =>
        LET obs  == geno[1]
            path == results[1]
            tw   == TransWeights(model)
            best == JointWeight(model, tw, path, obs)
        IN  /\ Len(path) = Len(obs)
            /\ model.startprob_ = [s \in States |->
                   CASE s = 0 -> Den - params.f_1 - params.f_2
                     [] s = 1 -> params.f_1
                     [] OTHER -> params.f_2]
            /\ \A other \in StatePaths(Len(obs)) :
                   ~ BigLess(best, JointWeight(model, tw, other, obs))

\* a decode of three markers in which some marker's decoded state is not that
\* marker's most probable state
C3_Witness ==
    /\ pc = "decoded"
    /\ Len(geno[1]) = 3
    /\ LET tw == TransWeights(model)
       IN  \E t \in 1 .. 3 : \E s \in States :
               BigLess(Marginal(model, tw, geno[1], t, results[1][t]),
                       Marginal(model, tw, geno[1], t, s))

-----------------------------------------------------------------------------
(* The inputs of the whole-genome runs *)

\* the longest decode a model holding NaN is run on
MaxNanLen == 2

NanPaths == [1 .. MaxNanLen -> States]
NoNanPath == [k \in 1 .. MaxNanLen |-> 0]

HmmCols == NumChroms + 2

\* chromosomes 1 and 2 as given, chromosome c > 2 owning column c + 2
Grouping(c1, c2) ==
    [c \in 1 .. NumChroms |-> IF c = 1 THEN c1 ELSE IF c = 2 THEN c2 ELSE <<c + 2>>]

OrderedGrouping == Grouping(<<1, 2>>, <<3, 4>>)

\* groupings that partition the columns
PartitionGroupings ==
    { OrderedGrouping,
      Grouping(<<1, 2, 3>>, <<4>>),
      Grouping(<<3, 4>>, <<1, 2>>),      \* blocks not in chromosome order
      Grouping(<<1, 3>>, <<2, 4>>),      \* interleaved chromosomes
      Grouping(<<1, 2, 3, 4>>, <<>>) }   \* a chromosome without markers

\* groupings that leave a column out or cover one twice
BrokenGroupings ==
    { Grouping(<<1>>, <<3, 4>>),
      Grouping(<<1, 2>>, <<2, 3, 4>>),
      Grouping(<<1, 2, 2>>, <<3, 4>>),
      Grouping(<<1, 2>>, <<3, 4, 5>>) }

\* groupings of a four-column matrix that name only the chromosomes that are
\* present
PresentOnlyGroupings ==
    { [c \in {1} |-> <<1, 2, 3, 4>>],
      [c \in {1, 2} |-> IF c = 1 THEN <<1, 2>> ELSE <<3, 4>>] }

HmmGroupings == PartitionGroupings \cup BrokenGroupings

\* a row: four leading cells, then cell j holds j mod 4
GenoRow(head) == [j \in 1 .. HmmCols |-> IF j <= 4 THEN head[j] ELSE j % 4]

RowHeads == [1 .. 4 -> {0, 2}] \cup { <<3, 2, 2, 3>>, <<1, 1, 3, 0>>, <<3, 3, 3, 3>> }

SecondHeads == { <<0, 2, 2, 1>>, <<3, 0, 0, 2>> }

HmmGenos ==
    { <<GenoRow(a)>> : a \in RowHeads }
      \cup { <<GenoRow(a), GenoRow(b)>> : a \in RowHeads, b \in SecondHeads }

\* matrices with a cell that is no call: NaN, a negative value, a value above 3
OddHeads ==
    { <<NaN, 2, 2, 0>>, <<2, NaN, 2, 2>>, <<-1, 0, 2, 2>>, <<2, -2, 2, 2>>,
      <<0, 0, -4, 0>>, <<4, 0, 0, 0>>, <<0, -5, 0, 0>> }

OddGenos ==
    { <<GenoRow(a)>> : a \in OddHeads }
      \cup { <<GenoRow(<<0, 2, 2, 1>>), GenoRow(a)>> : a \in OddHeads }

\* matrices of four columns
NarrowGenos ==
    { <<a>> : a \in RowHeads } \cup { <<a, b>> : a \in RowHeads, b \in SecondHeads }

HmmParamSets == { DefaultParams, Prm(2, 8, 15, 50, 0, 25, 5, 60) }

\* parameter sets the spec calls valid on which a divisor of lines 64-70 is zero
BoundaryParamSets ==
    { Prm(1, 5, 10, 50, 15, 1, 0, 0),
      Prm(1, 5, 10, 50, 15, 1, 100, 0),
      Prm(1, 5, 10, 50, 15, 1, 0, 100) }

\* one parameter below 0 or above 1, or f_1 + f_2 above 1
InvalidParamSets ==
    { [DefaultParams EXCEPT ![k] = v] :
          k \in DOMAIN DefaultParams, v \in {-10, 110} }
      \cup { Prm(1, 5, 10, 50, 15, 1, 80, 50) }

\* the end-to-end scenario: 4 individuals x 6 markers, every call 0, all six
\* markers on chromosome 1, mr = 0; germ and gert at 0.05/0.10 and at 0.9/0.9
AllZeroGeno == [i \in 1 .. 4 |-> [j \in 1 .. 6 |-> 0]]

\* the grouping that names chromosome 1 only, and the one that also lists
\* chromosomes 2 to 10 with no markers
OneChromGroupings ==
    { [c \in {1} |-> [j \in 1 .. 6 |-> j]],
      [c \in 1 .. NumChroms |->
          IF c = 1 THEN [j \in 1 .. 6 |-> j] ELSE <<>>] }

LowErrorParams == Prm(1, 5, 10, 50, 0, 1, 25, 5)

HighErrorParams == Prm(1, 90, 90, 50, 0, 1, 25, 5)

InitHmmCommon ==
    /\ pc = "build"
    /\ model = NoModel
    /\ chromPos = 0
    /\ results = <<>>
    /\ nil_calls = <<>>
    /\ raised = "none"
    /\ grid = NoGrid
    /\ current = 0
    /\ table = <<>>
    /\ warnings = <<>>
    /\ groups = NoGroups
    /\ best_params = NoBest
    /\ vcf = <<>>
    /\ sample_names = <<>>
    /\ marker_info = <<>>
    /\ summary_stats = <<>>

InitHmm ==
    /\ InitHmmCommon
    /\ \/ /\ params \in HmmParamSets
          /\ \/ geno \in HmmGenos /\ marker_dict \in HmmGroupings
             \/ geno \in NarrowGenos /\ marker_dict \in PresentOnlyGroupings
          /\ nanPath = NoNanPath
       \/ /\ params = DefaultParams
          /\ geno \in OddGenos
          /\ marker_dict = OrderedGrouping
          /\ nanPath = NoNanPath
       \/ /\ params \in {LowErrorParams, HighErrorParams}
          /\ geno = AllZeroGeno
          /\ marker_dict \in OneChromGroupings
          /\ nanPath = NoNanPath
       \/ /\ params \in BoundaryParamSets \cup InvalidParamSets
          /\ geno = << GenoRow(<<2, 0, 2, 0>>) >>
          /\ marker_dict = OrderedGrouping
          /\ nanPath \in IF ZeroDivision(params) \/ ~ HasNaN(BuildModel(params))
                         THEN {NoNanPath} ELSE NanPaths

SpecHmm == InitHmm /\ [][NextHmm]_vars

-----------------------------------------------------------------------------
(* The matrix builder on its own, over a grid of parameter values *)

TransGrid ==
    { [DefaultParams EXCEPT !.r = r, !.f_1 = f1, !.f_2 = f2] :
          r \in {0, 1, 50, 100}, f1 \in {0, 25, 50, 100}, f2 \in {0, 5, 50, 100} }

EmiGrid ==
    { [DefaultParams EXCEPT !.nir = nir, !.germ = germ, !.gert = gert, !.p = p,
                            !.mr = mr] :
          nir \in {0, 1, 100}, germ \in {0, 5, 100}, gert \in {0, 10, 100},
          p \in {0, 50, 100}, mr \in {0, 15, 100} }

InitBuild ==
    /\ InitHmmCommon
    /\ params \in TransGrid \cup EmiGrid \cup DecodeParamSets \cup InvalidParamSets
    /\ geno = << GenoRow(<<2, 0, 2, 0>>) >>
    /\ marker_dict = OrderedGrouping
    /\ nanPath = NoNanPath

NextBuild == Build

SpecBuild == InitBuild /\ [][NextBuild]_vars

-----------------------------------------------------------------------------
(* Claims about introgression_hmm *)

\* how often column j occurs in the grouping
RECURSIVE CountIn(_, _)
CountIn(idxs, j) ==
    IF idxs = <<>> THEN 0
    ELSE (IF Head(idxs) = j THEN 1 ELSE 0) + CountIn(Tail(idxs), j)

RECURSIVE Coverage(_, _, _)
Coverage(md, chroms, j) ==
    IF chroms = {} THEN 0
    ELSE LET c == CHOOSE x \in chroms : TRUE
         IN  CountIn(md[c], j) + Coverage(md, chroms \ {c}, j)

\* the grouping covers every column of the matrix exactly once
IsPartition(md, g) ==
    /\ \A c \in DOMAIN md : \A k \in 1 .. Len(md[c]) :
           md[c][k] \in 1 .. NumCols(g)
    /\ \A j \in 1 .. NumCols(g) : Coverage(md, DOMAIN md, j) = 1

GenoCellsValid(g) ==
    \A i \in 1 .. Len(g) : \A j \in 1 .. Len(g[i]) : g[i][j] \in Symbols

(* C1: for any genotype matrix with cells in {0,1,2,3} and any marker        *)
(* grouping, the returned call matrix has the shape of the input and every   *)
(* cell is in {0,1,2}.                                                        *)
C1_CallMatrixHasInputShape ==
    (pc = "returned" /\ GenoCellsValid(geno)) =>
        /\ Len(nil_calls) = Len(geno)
        /\ \A i \in 1 .. Len(nil_calls) :
               /\ Len(nil_calls[i]) = NumCols(geno)
               /\ \A j \in 1 .. Len(nil_calls[i]) : nil_calls[i][j] \in States

(* C2: for any grouping that partitions the columns, column j of the call    *)
(* matrix holds the decoded states of input column j: the state decoded for  *)
(* the k-th marker of a chromosome stands in the column that marker has in   *)
(* the input.                                                                *)
C2_OutputColumnIsInputColumn ==
    (pc = "returned" /\ IsPartition(marker_dict, geno)) =>
        \A c \in DOMAIN marker_dict : \A k \in 1 .. Len(marker_dict[c]) :
            \A i \in 1 .. Len(geno) :
                nil_calls[i][marker_dict[c][k]] = results[c][i][k]

(* C4 as stated: for any valid parameter set, the boundary cases f1=f2=0,    *)
(* f1=1 and f2=1 included, a transition matrix is derived and each of its    *)
(* rows sums to 1.                                                            *)
C4_RowsSumToOneOnEveryValidSet ==
    (pc # "build" /\ ValidParams(params)) =>
        /\ model.built
        /\ \A i \in States : FracRowSumsToOne(model.transmat_[i])

(* C5: for nir, germ, gert, p and mr each in [0,1], every row of the derived *)
(* emission matrix sums to 1 and its missing column equals mr in all three   *)
(* rows.                                                                     *)
C5_EmissionRowsSumToOne ==
    (/\ model.built
     /\ \A k \in {"nir", "germ", "gert", "p", "mr"} :
            params[k] >= 0 /\ params[k] <= Den) =>
        \A s \in States :
            /\ EmiRowSum(model.emissionprob_[s]) = EmiDen
            /\ model.emissionprob_[s][3] = params.mr * (EmiDen \div Den)

\* an emission matrix built with every emission parameter strictly inside (0,1)
C5_Witness ==
    /\ model.built
    /\ \A k \in {"nir", "germ", "gert", "p", "mr"} :
           params[k] > 0 /\ params[k] < Den
    /\ \A s \in States : \A o \in Symbols : model.emissionprob_[s][o] > 0

(* C6: with a parameter outside [0,1] or f1+f2 > 1 the call ends in an error *)
(* and no matrix is produced and no decoding is run.                         *)
C6_InvalidParametersAreRejected ==
    (pc # "build" /\ ~ ValidParams(params)) =>
        /\ pc = "raised"
        /\ ~ model.built
        /\ \A c \in DOMAIN results : results[c] = <<>>

(* C7: when the grouping does not cover every column exactly once,           *)
(* introgression_hmm raises instead of returning a call matrix.              *)
C7_BrokenGroupingIsRejected ==
    ~ IsPartition(marker_dict, geno) => pc # "returned"

(* C8: a grouping that partitions the columns and names only the             *)
(* chromosomes that are present ({1}, or {1,2}) is accepted: with valid      *)
(* parameters the call raises nothing, an entry for each of chromosomes 1 to *)
(* 10 not being required.                                                    *)
C8_PresentChromosomesSuffice ==
    (/\ IsPartition(marker_dict, geno)
     /\ DOMAIN marker_dict # 1 .. NumChroms
     /\ ValidParams(params)
     /\ ~ ZeroDivision(params)) =>
        raised = "none"

-----------------------------------------------------------------------------
(* optimize_parameters and calculate_quality_metrics (grid_search.py).       *)
(* Percentages and rates are exact fractions; a standard deviation is kept   *)
(* as its square.  base_r is in units of 1/Den and a multiplier is a whole   *)
(* number or NaN.                                                            *)

\* np.sum(row >= state) over one row
RECURSIVE CountState_AtLeast(_, _)
CountState_AtLeast(row, state) ==
    IF row = <<>> THEN 0
    ELSE (IF Head(row) >= state THEN 1 ELSE 0) + CountState_AtLeast(Tail(row), state)

\* np.sum(row == state) over one row
RECURSIVE CountState(_, _)
CountState(row, state) ==
    IF row = <<>> THEN 0
    ELSE (IF Head(row) = state THEN 1 ELSE 0) + CountState(Tail(row), state)

RECURSIVE SumOver(_, _)
SumOver(counts, k) ==
    IF k = 0 THEN 0 ELSE counts[k] + SumOver(counts, k - 1)

\* a fraction in lowest terms
Reduced(n, d) ==
    LET g == Gcd(Abs(n), Abs(d)) IN IF g = 0 THEN Frac(n, d) ELSE Frac(n \div g, d \div g)

\* np.std(rates) squared, the rates being counts[i] / n_markers
VarianceOfRates(counts, n_markers) ==
    LET n_samples == Len(counts)
        total     == SumOver(counts, n_samples)
        devs      == [i \in 1 .. n_samples |->
                         (n_samples * counts[i] - total) * (n_samples * counts[i] - total)]
    IN  Reduced(SumOver(devs, n_samples),
                n_samples * n_samples * n_samples * n_markers * n_markers)

calculate_quality_metrics(calls) ==
    LET n_samples   == Len(calls)
        n_markers   == IF n_samples = 0 THEN 0 ELSE Len(calls[1])
        cells       == n_samples * n_markers
        PerSample(state) == [i \in 1 .. n_samples |-> CountState(calls[i], state)]
        Cells(state)     == SumOver(PerSample(state), n_samples)
        samples_no_introg ==
            Cardinality({ i \in 1 .. n_samples : CountState(calls[i], 0) = n_markers })
    IN  [pct_b73_calls         |-> Reduced(100 * Cells(0), cells),
         pct_het_calls         |-> Reduced(100 * Cells(1), cells),
         pct_donor_calls       |-> Reduced(100 * Cells(2), cells),
         mean_het_rate         |-> Reduced(Cells(1), cells),
         mean_donor_rate       |-> Reduced(Cells(2), cells),
         std_het_rate          |-> [squared |-> VarianceOfRates(PerSample(1), n_markers)],
         std_donor_rate        |-> [squared |-> VarianceOfRates(PerSample(2), n_markers)],
         pct_samples_no_introg |-> Reduced(100 * samples_no_introg, n_samples)]

total_combinations(gr) ==
    Len(gr.nir_values) * Len(gr.germ_values) * Len(gr.gert_values)
        * Len(gr.p_values) * Len(gr.r_multipliers)

\* the k-th tuple of itertools.product: the last list varies fastest
Combination(gr, k) ==
    LET i5 == k - 1
        i4 == i5 \div Len(gr.r_multipliers)
        i3 == i4 \div Len(gr.p_values)
        i2 == i3 \div Len(gr.gert_values)
        i1 == i2 \div Len(gr.germ_values)
        r_mult == gr.r_multipliers[(i5 % Len(gr.r_multipliers)) + 1]
    IN  [nir  |-> gr.nir_values[(i1 % Len(gr.nir_values)) + 1],
         germ |-> gr.germ_values[(i2 % Len(gr.germ_values)) + 1],
         gert |-> gr.gert_values[(i3 % Len(gr.gert_values)) + 1],
         p    |-> gr.p_values[(i4 % Len(gr.p_values)) + 1],
         r    |-> IF r_mult = NaN \/ gr.base_r = NaN THEN NaN ELSE gr.base_r * r_mult]

\* the parameters introgression_hmm runs with when called as on lines 71-80:
\* mr, f_1 and f_2 are not passed and take their defaults
CallParams(c) ==
    [DefaultParams EXCEPT !.nir = c.nir, !.germ = c.germ, !.gert = c.gert,
                          !.p = c.p, !.r = c.r]

\* lines 63-94 for a combination that neither decoding nor scoring raises on
GridRow ==
    /\ pc = "sweep"
    /\ current < total_combinations(grid)
    /\ LET c   == Combination(grid, current + 1)
           out == IntrogressionHmm(geno, marker_dict, CallParams(c), nanPath)
       IN  /\ out.raised = "none"
           /\ table' = Append(table, c @@ calculate_quality_metrics(out.calls))
           /\ params' = CallParams(c)
           /\ nil_calls' = out.calls
    /\ current' = current + 1
    /\ UNCHANGED <<pc, geno, marker_dict, model, chromPos, results, raised, nanPath,
                   grid, warnings, groups, best_params>>
    /\ UNCHANGED ioVars

\* a failing combination logged and tried again
GridSkip_Retry ==
    /\ pc = "sweep"
    /\ current < total_combinations(grid)
    /\ LET c   == Combination(grid, current + 1)
           out == IntrogressionHmm(geno, marker_dict, CallParams(c), nanPath)
       IN  /\ out.raised # "none"
           /\ warnings' = Append(warnings, c @@ [reason |-> out.raised])
           /\ params' = CallParams(c)
    /\ current' = current
    /\ UNCHANGED <<pc, geno, marker_dict, model, chromPos, results, nil_calls,
                   raised, nanPath, grid, table, groups, best_params>>
    /\ UNCHANGED ioVars

\* lines 63-80 and 96-98 for a combination that raises: the warning carries the
\* combination and the exception, and the loop goes on
GridSkip ==
    /\ pc = "sweep"
    /\ current < total_combinations(grid)
    /\ LET c   == Combination(grid, current + 1)
           out == IntrogressionHmm(geno, marker_dict, CallParams(c), nanPath)
       IN  /\ out.raised # "none"
           /\ warnings' = Append(warnings, c @@ [reason |-> out.raised])
           /\ params' = CallParams(c)
    /\ current' = current + 1
    /\ UNCHANGED <<pc, geno, marker_dict, model, chromPos, results, nil_calls,
                   raised, nanPath, grid, table, groups, best_params>>
    /\ UNCHANGED ioVars

\* lines 100-108 with output_file = None: the rows become the returned frame
GridReturn ==
    /\ pc = "sweep"
    /\ current = total_combinations(grid)
    /\ pc' = "done"
    /\ UNCHANGED hmmVars
    /\ UNCHANGED gridVars
    /\ UNCHANGED ioVars

(***************************************************************************)
(* select_best_parameters (grid_search.py lines 152-193) on the frame that *)
(* optimize_parameters returned.                                           *)
(***************************************************************************)
Criteria == {"donor_rate", "het_rate", "balanced", "max_donor"}

\* a / b < c / d for fractions with positive denominators
FracLess(a, b) == a.n * b.d < b.n * a.d

\* lines 171-181: the column, or the score, that idxmax is taken of; the score
\* mean_donor_rate * 0.7 - pct_samples_no_introg * 0.3 is kept over ten times
\* the product of the two denominators
CriterionScore(row, criteria) ==
    IF criteria = "donor_rate" THEN row.mean_donor_rate
    ELSE IF criteria = "het_rate" THEN row.mean_het_rate
    ELSE Frac(7 * row.mean_donor_rate.n * row.pct_samples_no_introg.d
                  - 3 * row.pct_samples_no_introg.n * row.mean_donor_rate.d,
              10 * row.mean_donor_rate.d * row.pct_samples_no_introg.d)

\* Series.idxmin: the label of the first minimum
idxmin(results_df, criteria) ==
    CHOOSE k \in 1 .. Len(results_df) :
        /\ \A j \in 1 .. Len(results_df) :
               ~ FracLess(CriterionScore(results_df[j], criteria),
                          CriterionScore(results_df[k], criteria))
        /\ \A j \in 1 .. k - 1 :
               FracLess(CriterionScore(results_df[k], criteria),
                        CriterionScore(results_df[j], criteria))

\* Series.idxmax: the label of the first maximum
idxmax(results_df, criteria) ==
    CHOOSE k \in 1 .. Len(results_df) :
        /\ \A j \in 1 .. Len(results_df) :
               ~ FracLess(CriterionScore(results_df[k], criteria),
                          CriterionScore(results_df[j], criteria))
        /\ \A j \in 1 .. k - 1 :
               FracLess(CriterionScore(results_df[j], criteria),
                        CriterionScore(results_df[k], criteria))

\* a frame without rows answered with the defaults of introgression_hmm
select_best_parameters_Defaults(results_df, criteria) ==
    IF criteria \notin {"donor_rate", "het_rate", "balanced"}
    THEN [raised |-> "ValueError", best_params |-> NoBest]
    ELSE IF Len(results_df) = 0
    THEN [raised |-> "none",
          best_params |-> [criteria |-> criteria,
                           nir |-> DefaultParams.nir, germ |-> DefaultParams.germ,
                           gert |-> DefaultParams.gert, p |-> DefaultParams.p,
                           r |-> DefaultParams.r]]
    ELSE LET best_row == results_df[idxmax(results_df, criteria)]
         IN  [raised |-> "none",
              best_params |-> [criteria |-> criteria,
                               nir |-> best_row.nir, germ |-> best_row.germ,
                               gert |-> best_row.gert, p |-> best_row.p,
                               r |-> best_row.r]]

\* lines 171-193: an unknown criteria raises ValueError; a frame without rows
\* has no metric column and the column lookup raises KeyError; otherwise the
\* five swept parameters of the selected row are returned
select_best_parameters(results_df, criteria) ==
    IF criteria \notin {"donor_rate", "het_rate", "balanced"}
    THEN [raised |-> "ValueError", best_params |-> NoBest]
    ELSE IF Len(results_df) = 0
    THEN [raised |-> "KeyError", best_params |-> NoBest]
    ELSE LET best_row == results_df[idxmax(results_df, criteria)]
         IN  [raised |-> "none",
              best_params |-> [criteria |-> criteria,
                               nir |-> best_row.nir, germ |-> best_row.germ,
                               gert |-> best_row.gert, p |-> best_row.p,
                               r |-> best_row.r]]

\* parameter_tuning.py line 71: the selection is called on the returned frame
SelectBest ==
    /\ pc = "done"
    /\ \E criteria \in Criteria :
           LET out == select_best_parameters(table, criteria)
           IN  /\ best_params' = out.best_params
               /\ raised' = out.raised
               /\ pc' = IF out.raised = "none" THEN "selected" ELSE "raised"
    /\ UNCHANGED <<params, geno, marker_dict, model, chromPos, results, nil_calls,
                   nanPath, grid, current, table, warnings, groups>>
    /\ UNCHANGED ioVars

NextGrid == GridRow \/ GridSkip \/ GridReturn \/ SelectBest

\* the missing rate and expected frequencies the caller of the search holds
\* (an estimate from its data, as File_S14 line 276 passes to call_intros);
\* optimize_parameters has no parameter to receive them
CallerRates(mr, f1, f2) == [mr |-> mr, f_1 |-> f1, f_2 |-> f2]

GridOf(nirs, germs, gerts, ps, mults, base) ==
    [on |-> TRUE, nir_values |-> nirs, germ_values |-> germs, gert_values |-> gerts,
     p_values |-> ps, r_multipliers |-> mults, base_r |-> base,
     caller |-> CallerRates(DefaultParams.mr, DefaultParams.f_1, DefaultParams.f_2)]

\* nine valid combinations and one invalid one (nir = 1.1)
NineAndOneGrid ==
    GridOf(<<0, 1, 2, 5, 10, 20, 30, 50, 100, 110>>, <<5>>, <<10>>, <<50>>, <<1>>, 1)

GridInputs ==
    { GridOf(nirs, germs, <<10>>, ps, mults, 1) :
          nirs \in { <<1>>, <<1, 10>> },
          germs \in { <<5>>, <<5, 90>> },
          ps \in { <<50>>, <<25, 75>> },
          mults \in { <<1>>, <<1, 2>>, <<1, NaN, 2>> } }
      \cup { NineAndOneGrid }
      \cup { [GridOf(<<1>>, <<5>>, <<10>>, <<50>>, <<1, 2>>, 1)
                  EXCEPT !.caller = CallerRates(0, 30, 10)] }

GridGenos ==
    { << GenoRow(<<2, 2, 0, 0>>) >>,
      << GenoRow(<<0, 0, 0, 0>>), GenoRow(<<3, 2, 2, 1>>) >> }

GridGroupings == { OrderedGrouping, Grouping(<<3, 4>>, <<1, 2>>) }

\* a four-column matrix with a grouping that names chromosome 1 alone
GridNarrowGenos == { << <<2, 2, 0, 0>> >>, << <<0, 0, 0, 0>>, <<3, 2, 2, 1>> >> }

\* some combination of the grid builds a model that holds NaN
GridHasNaN(gr) ==
    \E k \in 1 .. total_combinations(gr) :
        LET prm == CallParams(Combination(gr, k))
        IN  prm.r # NaN /\ ~ ZeroDivision(prm) /\ HasNaN(BuildModel(prm))

InitGrid ==
    /\ pc = "sweep"
    /\ params = DefaultParams
    /\ \/ geno \in GridGenos /\ marker_dict \in GridGroupings
       \/ /\ geno \in GridNarrowGenos
          /\ marker_dict = [c \in {1} |-> <<1, 2, 3, 4>>]
    /\ model = NoModel
    /\ chromPos = 0
    /\ results = <<>>
    /\ nil_calls = <<>>
    /\ raised = "none"
    /\ grid \in GridInputs
    /\ nanPath \in IF GridHasNaN(grid) THEN NanPaths ELSE {NoNanPath}
    /\ current = 0
    /\ table = <<>>
    /\ warnings = <<>>
    /\ groups = NoGroups
    /\ best_params = NoBest
    /\ vcf = <<>>
    /\ sample_names = <<>>
    /\ marker_info = <<>>
    /\ summary_stats = <<>>

SpecGrid == InitGrid /\ [][NextGrid]_vars

-----------------------------------------------------------------------------
(* Claims about optimize_parameters *)

ValidCombinations(gr) ==
    { k \in 1 .. total_combinations(gr) : ValidParams(CallParams(Combination(gr, k))) }

(* C9: the sweep goes on after a failing combination and attempts every      *)
(* later one; given a grouping with an entry for every chromosome, the       *)
(* returned table has exactly one row per valid combination (nine rows for   *)
(* nine valid combinations plus an invalid one) and every other combination  *)
(* is reported as skipped, with its reason.                                  *)
C9_OneRowPerValidCombination ==
    (pc = "done" /\ DOMAIN marker_dict = 1 .. NumChroms) =>
        /\ current = total_combinations(grid)
        /\ Len(table) = Cardinality(ValidCombinations(grid))
        /\ Len(table) + Len(warnings) = total_combinations(grid)
        /\ \A k \in 1 .. Len(warnings) : "reason" \in DOMAIN warnings[k]

(* C10: every row of the grid-search table carries the full parameter set    *)
(* (nir, germ, gert, p, mr, r, f_1, f_2) and the summary metrics.            *)
C10_RowsCarryAllEightParameters ==
    \A k \in 1 .. Len(table) :
        /\ DOMAIN DefaultParams \subseteq DOMAIN table[k]
        /\ { "pct_b73_calls", "pct_het_calls", "pct_donor_calls", "mean_het_rate",
             "mean_donor_rate", "std_het_rate", "std_donor_rate",
             "pct_samples_no_introg" } \subseteq DOMAIN table[k]

(* C11: every decoding call of the sweep runs with the missing rate mr and    *)
(* the expected frequencies f_1, f_2 that the caller of the search chose,    *)
(* never with a built-in default of its own.                                 *)
C11_SweepDecodesWithCallersRates ==
    current > 0 =>
        /\ params.mr = grid.caller.mr
        /\ params.f_1 = grid.caller.f_1
        /\ params.f_2 = grid.caller.f_2

-----------------------------------------------------------------------------
(* Claims about single decodes *)

OnlyChrom(g, idxs) ==
    [i \in 1 .. Len(g) |->
        [j \in 1 .. Len(g[i]) |->
            IF \E k \in 1 .. Len(idxs) : idxs[k] = j THEN g[i][j] ELSE 0]]

\* the rows in reverse order
ReverseRows(g) == [i \in 1 .. Len(g) |-> g[Len(g) + 1 - i]]

(* C13: decoding is independent per individual and per chromosome.  The      *)
(* matrix with its rows reversed decodes to the call matrix with its rows    *)
(* reversed; every row decoded alone gets the calls it gets in the matrix;   *)
(* a chromosome's calls are those of the matrix in which every other         *)
(* chromosome's observations are replaced; exchanging the entries of         *)
(* chromosomes 1 and 2 in the grouping exchanges their column blocks and     *)
(* changes nothing else.                                                     *)
C13_RowsAndChromosomesDecodeIndependently ==
    pc = "returned" =>
        /\ IntrogressionHmm(ReverseRows(geno), marker_dict, params, nanPath).calls
               = ReverseRows(nil_calls)
        /\ \A i \in 1 .. Len(geno) :
               IntrogressionHmm(<<geno[i]>>, marker_dict, params, nanPath).calls
                   = <<nil_calls[i]>>
        /\ \A c \in 1 .. 2 :
               DecodeChrom(model, OnlyChrom(geno, marker_dict[c]), marker_dict, c,
                           nanPath) = results[c]
        /\ IntrogressionHmm(geno, [marker_dict EXCEPT ![1] = marker_dict[2],
                                                      ![2] = marker_dict[1]],
                            params, nanPath).calls
               = PackResults([results EXCEPT ![1] = results[2], ![2] = results[1]],
                             Len(geno))

\* a returned matrix of two individuals whose rows differ, on a grouping whose
\* first two chromosomes have two markers each
C13_Witness ==
    /\ pc = "returned"
    /\ Len(geno) = 2
    /\ nil_calls[1] # nil_calls[2]
    /\ Len(marker_dict[1]) = 2 /\ Len(marker_dict[2]) = 2
    /\ results[1] # results[2]

-----------------------------------------------------------------------------
(* The quality evaluators on call matrices of their own:                     *)
(* calculate_quality_metrics (grid_search.py) and evaluate_chip_results      *)
(* (File_S14), the latter over the rows of the B73, donor-parent and NIL     *)
(* groups.  A mean over no values is NaN (numpy warns and returns nan); a    *)
(* Python int divided by the int 0 raises ZeroDivisionError.                 *)

\* the most individuals and the most markers of a call matrix
MaxSamples == 2
MaxMarkers == 2

\* the cells equal to state in the rows of a group
RECURSIVE GroupCount(_, _, _)
GroupCount(calls, rows, state) ==
    IF rows = {} THEN 0
    ELSE LET i == CHOOSE x \in rows : TRUE
         IN  CountState(calls[i], state) + GroupCount(calls, rows \ {i}, state)

\* np.mean(np.count_nonzero(NIL_calls[rows, :] == state, axis = 1) / shape[1])
GroupMean(calls, rows, state) ==
    LET n_markers == IF Len(calls) = 0 THEN 0 ELSE Len(calls[1])
    IN  Reduced(GroupCount(calls, rows, state), Cardinality(rows) * n_markers)

\* line 224 divides by len(NILIndices), both operands Python ints
EvaluateChipRaises(grp) ==
    IF Cardinality(grp.NILIndices) = 0 THEN "ZeroDivisionError" ELSE "none"

evaluate_chip_results(NIL_calls, grp, prm) ==
    LET with_intro == { i \in grp.NILIndices :
                           CountState(NIL_calls[i], 0) < Len(NIL_calls[i]) }
    IN  [Method |-> "Chip",
         nir |-> prm.nir, germ |-> prm.germ, gert |-> prm.gert, p |-> prm.p,
         r |-> prm.r,
         B73hetMean          |-> GroupMean(NIL_calls, grp.B73Index, 1),
         DonorhetMean        |-> GroupMean(NIL_calls, grp.parentIndices, 1),
         NILhetMean          |-> GroupMean(NIL_calls, grp.NILIndices, 1),
         B73homozIntroMean   |-> GroupMean(NIL_calls, grp.B73Index, 2),
         DonorhomozIntroMean |-> GroupMean(NIL_calls, grp.parentIndices, 2),
         NILhomozIntroMean   |-> GroupMean(NIL_calls, grp.NILIndices, 2),
         PercNILsNoIntro     |-> Reduced(Cardinality(grp.NILIndices)
                                             - Cardinality(with_intro),
                                         Cardinality(grp.NILIndices))]

CalculateQualityMetrics ==
    /\ pc = "metrics"
    /\ table' = << calculate_quality_metrics(nil_calls) >>
    /\ pc' = "scored"
    /\ UNCHANGED <<grid, current, warnings, groups, best_params>>
    /\ UNCHANGED ioVars
    /\ UNCHANGED hmmVars

EvaluateChipResults ==
    /\ pc = "metrics"
    /\ IF EvaluateChipRaises(groups) # "none"
       THEN /\ raised' = EvaluateChipRaises(groups)
            /\ pc' = "raised"
            /\ UNCHANGED table
       ELSE /\ table' = << evaluate_chip_results(nil_calls, groups, params) >>
            /\ pc' = "evaluated"
            /\ UNCHANGED raised
    /\ UNCHANGED <<params, geno, marker_dict, model, chromPos, results, nil_calls,
                   nanPath>>
    /\ UNCHANGED <<grid, current, warnings, groups, best_params>>
    /\ UNCHANGED ioVars

NextMetrics == CalculateQualityMetrics \/ EvaluateChipResults

\* call matrices of up to MaxSamples individuals, the matrix without
\* individuals among them
CallMatrices ==
    { <<>> } \cup UNION { [1 .. n -> [1 .. m -> States]] :
                           n \in 1 .. MaxSamples, m \in 1 .. MaxMarkers }

\* every row in at most one of the three groups
GroupChoices(n) ==
    { [B73Index      |-> { i \in 1 .. n : a[i] = "B73" },
       parentIndices |-> { i \in 1 .. n : a[i] = "parent" },
       NILIndices    |-> { i \in 1 .. n : a[i] = "NIL" }] :
          a \in [1 .. n -> {"B73", "parent", "NIL", "other"}] }

\* every row a NIL
AllNIL(n) == [B73Index |-> {}, parentIndices |-> {}, NILIndices |-> 1 .. n]

\* matrices whose rows are a line without introgression or a line with a
\* heterozygous and a donor call
ChipMatrices ==
    UNION { [1 .. n -> { <<0, 0>>, <<1, 2>> }] : n \in 0 .. MaxSamples }

InitMetrics ==
    /\ pc = "metrics"
    /\ params = DefaultParams
    /\ geno = <<>>
    /\ marker_dict = <<>>
    /\ model = NoModel
    /\ chromPos = 0
    /\ results = <<>>
    /\ \/ nil_calls \in CallMatrices /\ groups = AllNIL(Len(nil_calls))
       \/ nil_calls \in ChipMatrices /\ groups \in GroupChoices(Len(nil_calls))
    /\ raised = "none"
    /\ nanPath = NoNanPath
    /\ grid = NoGrid
    /\ current = 0
    /\ table = <<>>
    /\ warnings = <<>>
    /\ best_params = NoBest
    /\ vcf = <<>>
    /\ sample_names = <<>>
    /\ marker_info = <<>>
    /\ summary_stats = <<>>

SpecMetrics == InitMetrics /\ [][NextMetrics]_vars

\* three fractions sum to the whole number k
SumsTo(a, b, c, k) ==
    LET L == Lcm(Lcm(a.d, b.d), c.d)
    IN  /\ L > 0
        /\ a.n * (L \div a.d) + b.n * (L \div b.d) + c.n * (L \div c.d) = k * L

(* C15 as stated: for any call matrix with cells in {0,1,2}, pct_b73_calls,  *)
(* pct_het_calls and pct_donor_calls of calculate_quality_metrics sum to 1.  *)
C15_StateFractionsSumToOne ==
    (pc = "scored" /\ nil_calls # <<>>) =>
        SumsTo(table[1].pct_b73_calls, table[1].pct_het_calls,
               table[1].pct_donor_calls, 1)

(* C15 amended: for any call matrix with at least one cell and cells in      *)
(* {0,1,2}, pct_b73_calls, pct_het_calls and pct_donor_calls are percentages *)
(* and sum to 100.                                                           *)
C15_StatePercentagesSumToHundred ==
    (pc = "scored" /\ nil_calls # <<>>) =>
        SumsTo(table[1].pct_b73_calls, table[1].pct_het_calls,
               table[1].pct_donor_calls, 100)

\* a scored matrix in which all three states occur
C15_Witness ==
    /\ pc = "scored"
    /\ nil_calls # <<>>
    /\ table[1].pct_b73_calls.n > 0
    /\ table[1].pct_het_calls.n > 0
    /\ table[1].pct_donor_calls.n > 0

\* a statistic is reported as undefined (NaN), or has a value
Undefined(stat) == stat = NaNFrac
Defined(stat) == stat.d > 0

(* C16: when a subject group is empty (no rows in the B73, donor or NIL      *)
(* group of evaluate_chip_results, or no individuals in the matrix given to  *)
(* calculate_quality_metrics), no division error is raised, the statistics   *)
(* of that group are reported as undefined and those of the groups that are  *)
(* not empty are returned.                                                   *)
C16_EmptyGroupIsReportedUndefined ==
    /\ raised = "none"
    /\ (pc = "scored" /\ nil_calls = <<>>) =>
           /\ Undefined(table[1].pct_b73_calls)
           /\ Undefined(table[1].mean_donor_rate)
           /\ Undefined(table[1].pct_samples_no_introg)
    /\ pc = "evaluated" =>
           LET GroupOk(rows, het, homoz) ==
                   IF rows = {} THEN Undefined(het) /\ Undefined(homoz)
                   ELSE Defined(het) /\ Defined(homoz)
           IN  /\ GroupOk(groups.B73Index, table[1].B73hetMean,
                          table[1].B73homozIntroMean)
               /\ GroupOk(groups.parentIndices, table[1].DonorhetMean,
                          table[1].DonorhomozIntroMean)
               /\ GroupOk(groups.NILIndices, table[1].NILhetMean,
                          table[1].NILhomozIntroMean)
               /\ IF groups.NILIndices = {} THEN Undefined(table[1].PercNILsNoIntro)
                  ELSE Defined(table[1].PercNILsNoIntro)

(***************************************************************************)
(* C17: select_best_parameters is a pure reduction over the recorded rows: *)
(* the returned parameters are those of a row of the table whose criterion *)
(* is maximal (mean donor rate, mean heterozygote rate, or for balanced    *)
(* the weighted sum 0.7 * donor rate + 30 * (1 - no-introgression           *)
(* fraction)), and the step that selects leaves the table, the sweep       *)
(* position and every decoding result as they were.                        *)
(***************************************************************************)
\* 0.7 * mean_donor_rate + 30 * (1 - pct_samples_no_introg / 100)
WeightedComplement(row) ==
    Frac(7 * row.mean_donor_rate.n * row.pct_samples_no_introg.d
             + 3 * (100 * row.pct_samples_no_introg.d - row.pct_samples_no_introg.n)
                 * row.mean_donor_rate.d,
         10 * row.mean_donor_rate.d * row.pct_samples_no_introg.d)

Criterion(row, criteria) ==
    IF criteria = "donor_rate" THEN row.mean_donor_rate
    ELSE IF criteria = "het_rate" THEN row.mean_het_rate
    ELSE WeightedComplement(row)

RowParams(row) ==
    [nir |-> row.nir, germ |-> row.germ, gert |-> row.gert, p |-> row.p, r |-> row.r]

SelectedIsMaximalRow ==
    pc = "selected" =>
        \E k \in 1 .. Len(table) :
            /\ RowParams(table[k]) = RowParams(best_params)
            /\ \A j \in 1 .. Len(table) :
                   ~ FracLess(Criterion(table[k], best_params.criteria),
                              Criterion(table[j], best_params.criteria))

SelectionChangesNothing ==
    pc = "done" =>
        /\ table' = table
        /\ current' = current
        /\ warnings' = warnings
        /\ nil_calls' = nil_calls
        /\ results' = results
        /\ model' = model
        /\ params' = params

C17_SelectionIsPureReduction ==
    [] SelectedIsMaximalRow /\ [][SelectionChangesNothing]_vars

\* a selection that had to choose: the rows differ in the criterion and the
\* selected row is not the first of the table
C17_Witness ==
    /\ pc = "selected"
    /\ \E j \in 1 .. Len(table) :
           FracLess(Criterion(table[j], best_params.criteria),
                    Criterion(table[1], best_params.criteria))
    /\ \E j \in 1 .. Len(table) :
           FracLess(Criterion(table[1], best_params.criteria),
                    Criterion(table[j], best_params.criteria))

(***************************************************************************)
(* C18: the end-to-end call on the all-zero 4 x 6 matrix with all markers  *)
(* on one chromosome and f1 = 0.25, f2 = 0.05, r = 0.01, germ = 0.05,      *)
(* gert = 0.10, nir = 0.01, mr = 0, p = 0.5 returns, and returns a 4 x 6   *)
(* call matrix whose every cell is state 0.                                *)
(***************************************************************************)
C18_AllZeroInputDecodesToAllZero ==
    (/\ geno = AllZeroGeno
     /\ params = LowErrorParams
     /\ pc \in {"returned", "raised"}) =>
        /\ pc = "returned"
        /\ nil_calls = AllZeroGeno

(***************************************************************************)
(* C20: on the all-zero 4 x 6 single-chromosome matrix with f1 = 0.25,     *)
(* f2 = 0.05, r = 0.01, nir = 0.01, mr = 0, p = 0.5, the call with germ =  *)
(* gert = 0.9 returns a call matrix with strictly fewer state-0 cells than *)
(* the call with germ = 0.05 and gert = 0.10 returns.                      *)
(***************************************************************************)
\* the number of cells of a call matrix that hold state 0
StateZeroCells(calls) ==
    SumOver([i \in 1 .. Len(calls) |-> CountState(calls[i], 0)], Len(calls))

C20_HighErrorRatesLowerStateZero ==
    (/\ geno = AllZeroGeno
     /\ params = HighErrorParams
     /\ pc \in {"returned", "raised"}) =>
        LET low == IntrogressionHmm(geno, marker_dict, LowErrorParams, nanPath)
        IN  /\ pc = "returned"
            /\ low.raised = "none"
            /\ StateZeroCells(nil_calls) < StateZeroCells(low.calls)

-----------------------------------------------------------------------------
(* The decoder with recombination switched off: r = 0 on every parameter   *)
(* set, among them sets whose emission or start probabilities vanish       *)

NoRecombParamSets ==
    { [q EXCEPT !.r = 0] : q \in DecodeParamSets }
      \cup { Prm(0, 0, 0, 50, 0, 0, 25, 5),
             Prm(100, 0, 0, 50, 0, 0, 25, 5),
             Prm(0, 100, 100, 50, 0, 0, 25, 5),
             Prm(1, 5, 10, 50, 15, 0, 0, 50),
             Prm(1, 5, 10, 50, 15, 0, 50, 0) }

InitNoRecomb ==
    /\ pc = "decode"
    /\ params \in NoRecombParamSets
    /\ geno \in { <<row>> : row \in ObsRows }
    /\ marker_dict = <<>>
    /\ model = BuildModel(params)
    /\ chromPos = 0
    /\ results = <<>>
    /\ nil_calls = <<>>
    /\ raised = "none"
    /\ nanPath = [k \in 1 .. MaxLen |-> 0]
    /\ grid = NoGrid
    /\ current = 0
    /\ table = <<>>
    /\ warnings = <<>>
    /\ groups = NoGroups
    /\ best_params = NoBest
    /\ vcf = <<>>
    /\ sample_names = <<>>
    /\ marker_info = <<>>
    /\ summary_stats = <<>>

SpecNoRecomb == InitNoRecomb /\ [][NextDecode]_vars

\* a path that holds one state at all of its markers
IsConstantPath(path) == \A k \in 1 .. Len(path) : path[k] = path[1]

-----------------------------------------------------------------------------
(* The specified matrices, written from the formulas of the specification:  *)
(* a transition entry as numerator and denominator, an emission entry as a *)
(* sum of products of k factors, each factor in units of 1/Den.            *)

\* two fractions denote the same number
SameFrac(a, n, d) == a.d # 0 /\ d # 0 /\ a.n * d = n * a.d

RECURSIVE DenPower(_)
DenPower(k) == IF k = 0 THEN 1 ELSE Den * DenPower(k - 1)

\* a product of k factors, as a numerator over EmiDen
Term(product, k) == 2 * product * DenPower(4 - k)

\* half of a product of k factors, as a numerator over EmiDen
HalfTerm(product, k) == product * DenPower(4 - k)

SpecifiedTransition(prm, i, j) ==
    LET r == prm.r  f1 == prm.f_1  f2 == prm.f_2  f0 == Den - prm.f_1 - prm.f_2
    IN  CASE i = j            -> <<Den - r, Den>>
          [] i = 0 /\ j = 1   -> <<r * f1, Den * (f1 + f2)>>
          [] i = 0 /\ j = 2   -> <<r * f2, Den * (f1 + f2)>>
          [] i = 1 /\ j = 0   -> <<r * f0, Den * (f0 + f2)>>
          [] i = 1 /\ j = 2   -> <<r * f2, Den * (f0 + f2)>>
          [] i = 2 /\ j = 0   -> <<r * f0, Den * (f0 + f1)>>
          [] OTHER            -> <<r * f1, Den * (f0 + f1)>>

SpecifiedEmission(prm, s, o) ==
    LET nir == prm.nir  germ == prm.germ  gert == prm.gert  p == prm.p
        keep == Den - prm.mr
    IN  CASE o = 3 -> Term(prm.mr, 1)
          [] s = 0 /\ o = 0 -> Term((Den - germ) * keep, 2)
          [] s = 0 /\ o = 1 -> Term(p * germ * keep, 3)
          [] s = 0 /\ o = 2 -> Term((Den - p) * germ * keep, 3)
          [] s = 1 /\ o = 0 -> HalfTerm((Den - nir) * gert * keep, 3)
                                 + Term(nir * (Den - germ) * keep, 3)
          [] s = 1 /\ o = 1 -> Term((Den - nir) * (Den - gert) * keep, 3)
                                 + Term(nir * germ * p * keep, 4)
          [] s = 1 /\ o = 2 -> HalfTerm((Den - nir) * gert * keep, 3)
                                 + Term(nir * germ * (Den - p) * keep, 4)
          [] s = 2 /\ o = 0 -> Term((Den - nir) * germ * (Den - p) * keep, 4)
                                 + Term(nir * (Den - germ) * keep, 3)
          [] s = 2 /\ o = 1 -> Term(germ * p * keep, 3)
          [] OTHER          -> Term((Den - nir) * (Den - germ) * keep, 3)
                                 + Term(nir * germ * (Den - p) * keep, 4)

(***************************************************************************)
(* C21: whenever introgression_hmm has built its matrices, every entry of  *)
(* the transition matrix equals the specified one (diagonal 1-r, the six   *)
(* off-diagonal splits of r with f0 = 1-f1-f2) and every one of the twelve *)
(* emission entries equals the specified formula.                          *)
(***************************************************************************)
C21_MatricesEqualSpecifiedFormulas ==
    model.built =>
        /\ \A i \in States : \A j \in States :
               SameFrac(model.transmat_[i][j],
                        SpecifiedTransition(params, i, j)[1],
                        SpecifiedTransition(params, i, j)[2])
        /\ \A s \in States : \A o \in Symbols :
               model.emissionprob_[s][o] = SpecifiedEmission(params, s, o)

\* matrices built from eight parameters that are all strictly inside (0,1)
C21_Witness ==
    /\ model.built
    /\ params = Prm(2, 8, 15, 50, 20, 25, 5, 60)

-----------------------------------------------------------------------------
(* write_results (io.py lines 142-211): the labelled frame and the summary  *)
(* records.  A percentage is an exact fraction, NaN when the individual has *)
(* no markers; the files themselves are not modelled.                      *)

\* calls.size in place of the length of the individual's row
n_total_Size(calls, i) == Len(calls) * Len(calls[i])

\* line 183: n_total = len(sample_calls)
n_total(calls, i) == Len(calls[i])

\* lines 181-196 for individual i
SummaryRecord(calls, names, i) ==
    LET sample_calls == calls[i]
        n_b73   == CountState(sample_calls, 0)
        n_het   == CountState(sample_calls, 1)
        n_donor == CountState(sample_calls, 2)
    IN  [Sample        |-> names[i],
         Total_markers |-> n_total(calls, i),
         B73_homoz     |-> n_b73,
         Heterozygous  |-> n_het,
         Donor_homoz   |-> n_donor,
         Pct_B73       |-> Reduced(100 * n_b73, n_total(calls, i)),
         Pct_Het       |-> Reduced(100 * n_het, n_total(calls, i)),
         Pct_Donor     |-> Reduced(100 * n_donor, n_total(calls, i))]

\* lines 173-177: the frame's constructor raises ValueError when the index or
\* the column labels do not have the matrix's shape
FrameRaises(calls, names, info) ==
    \/ Len(names) # Len(calls)
    \/ Len(info) # NumCols(calls)

write_results(calls, names, info) ==
    IF FrameRaises(calls, names, info)
    THEN [raised |-> "ValueError", summary_stats |-> <<>>]
    ELSE [raised |-> "none",
          summary_stats |-> [i \in 1 .. Len(names) |-> SummaryRecord(calls, names, i)]]

WriteResults ==
    /\ pc = "write"
    /\ LET out == write_results(nil_calls, sample_names, marker_info)
       IN  /\ summary_stats' = out.summary_stats
           /\ raised' = out.raised
           /\ pc' = IF out.raised = "none" THEN "written" ELSE "raised"
    /\ UNCHANGED <<params, geno, marker_dict, model, chromPos, results, nil_calls,
                   nanPath, vcf, sample_names, marker_info>>
    /\ UNCHANGED gridVars

NextWrite == WriteResults

\* call matrices of up to MaxSamples individuals and 0 to MaxMarkers markers
WriteMatrices ==
    { <<>> } \cup UNION { [1 .. n -> [1 .. m -> States]] :
                           n \in 1 .. MaxSamples, m \in 0 .. MaxMarkers }

\* k sample names
Names(k) == [i \in 1 .. k |-> i]

\* m markers of chromosome 1 at positions 1 .. m
Markers(m) == [j \in 1 .. m |-> [CHROM |-> 1, POS |-> j]]

InitWrite ==
    /\ pc = "write"
    /\ params = DefaultParams
    /\ geno = <<>>
    /\ marker_dict = <<>>
    /\ model = NoModel
    /\ chromPos = 0
    /\ results = <<>>
    /\ nil_calls \in WriteMatrices
    /\ raised = "none"
    /\ nanPath = NoNanPath
    /\ grid = NoGrid
    /\ current = 0
    /\ table = <<>>
    /\ warnings = <<>>
    /\ groups = NoGroups
    /\ best_params = NoBest
    /\ vcf = <<>>
    /\ sample_names \in { Names(k) : k \in { Len(nil_calls), Len(nil_calls) + 1 } }
    /\ marker_info \in { Markers(m) : m \in { NumCols(nil_calls), NumCols(nil_calls) + 1 } }
    /\ summary_stats = <<>>

SpecWrite == InitWrite /\ [][NextWrite]_vars

\* the counts of a record add up to its total, which is the number of columns
CountsAddUp(rec) ==
    /\ rec.B73_homoz + rec.Heterozygous + rec.Donor_homoz = rec.Total_markers
    /\ rec.Total_markers = NumCols(nil_calls)

(***************************************************************************)
(* C22 as stated: write_results produces one summary record per individual *)
(* and in each the three counts add up to Total_markers, the number of     *)
(* columns, and the three percentages add up to 100.                       *)
(***************************************************************************)
C22_SummaryCountsAndPercentagesAddUp ==
    pc = "written" =>
        /\ Len(summary_stats) = Len(nil_calls)
        /\ \A i \in 1 .. Len(summary_stats) :
               /\ CountsAddUp(summary_stats[i])
               /\ SumsTo(summary_stats[i].Pct_B73, summary_stats[i].Pct_Het,
                         summary_stats[i].Pct_Donor, 100)

(***************************************************************************)
(* C22 amended: one summary record per individual, the three counts add up *)
(* to Total_markers, the number of columns, and when the matrix has at     *)
(* least one column the three percentages add up to 100.                   *)
(***************************************************************************)
C22_SummaryAddsUpWhenMarkersExist ==
    pc = "written" =>
        /\ Len(summary_stats) = Len(nil_calls)
        /\ \A i \in 1 .. Len(summary_stats) :
               /\ summary_stats[i].Sample = sample_names[i]
               /\ CountsAddUp(summary_stats[i])
               /\ NumCols(nil_calls) >= 1 =>
                      SumsTo(summary_stats[i].Pct_B73, summary_stats[i].Pct_Het,
                             summary_stats[i].Pct_Donor, 100)

\* two individuals written whose records differ in every count
C22_Witness ==
    /\ pc = "written"
    /\ Len(summary_stats) = 2
    /\ NumCols(nil_calls) >= 2
    /\ summary_stats[1].B73_homoz # summary_stats[2].B73_homoz
    /\ summary_stats[1].Heterozygous # summary_stats[2].Heterozygous
    /\ summary_stats[1].Donor_homoz # summary_stats[2].Donor_homoz

(***************************************************************************)
(* C23: a run of introgression_hmm leaves the genotype matrix and the      *)
(* marker grouping as they were at the call, and once the start,           *)
(* transition and emission matrices are set no later step of the run       *)
(* (the decodes of the chromosomes and individuals, the packing) changes   *)
(* them.                                                                   *)
(***************************************************************************)
InputsAndModelKept ==
    /\ geno' = geno
    /\ marker_dict' = marker_dict
    /\ params' = params
    /\ model.built => model' = model

C23_RunLeavesInputsAndModel == [][InputsAndModelKept]_vars

\* a run that has returned after decoding two individuals on ten chromosomes
\* with the model it built, from observations that include the missing call
C23_Witness ==
    /\ pc = "returned"
    /\ model.built
    /\ Len(geno) = 2
    /\ \E j \in 1 .. NumCols(geno) : geno[1][j] = 3

-----------------------------------------------------------------------------
(* optimize_parameters run to its end: the for loop of line 60 takes its   *)
(* next iteration as long as the product has an element left, and the      *)
(* function then returns.  The fairness of the iterations is weak fairness *)
(* of GridRow \/ GridSkip with its enabling condition written out: one of  *)
(* the two is enabled exactly when the loop has an element left, since a   *)
(* call of introgression_hmm either raises or does not.                    *)

Iterates == GridRow \/ GridSkip

ElementLeft == pc = "sweep" /\ current < total_combinations(grid)

SpecGridLive ==
    /\ InitGrid
    /\ [][NextGrid]_vars
    /\ WF_vars(GridReturn)
    /\ ([]<>(~ ElementLeft) \/ []<><<Iterates>>_vars)

\* the Cartesian product as index tuples, and the five values at one of them
ProductIndex(gr) ==
    (1 .. Len(gr.nir_values)) \X (1 .. Len(gr.germ_values))
        \X (1 .. Len(gr.gert_values)) \X (1 .. Len(gr.p_values))
        \X (1 .. Len(gr.r_multipliers))

TimesBase(gr, mult) == IF mult = NaN \/ gr.base_r = NaN THEN NaN ELSE gr.base_r * mult

ValuesAt(gr, idx) ==
    <<gr.nir_values[idx[1]], gr.germ_values[idx[2]], gr.gert_values[idx[3]],
      gr.p_values[idx[4]], TimesBase(gr, gr.r_multipliers[idx[5]])>>

AttemptValues(rec) == <<rec.nir, rec.germ, rec.gert, rec.p, rec.r>>

\* every element of the product has been attempted as often as it occurs in
\* the product, as a result row or as a failure
EveryElementAttemptedOnce ==
    LET attempts == table \o warnings
    IN  /\ Len(attempts) = Cardinality(ProductIndex(grid))
        /\ \A idx \in ProductIndex(grid) :
               Cardinality({ k \in 1 .. Len(attempts) :
                               AttemptValues(attempts[k]) = ValuesAt(grid, idx) })
                 = Cardinality({ other \in ProductIndex(grid) :
                                   ValuesAt(grid, other) = ValuesAt(grid, idx) })

RowsHoldScaledRate ==
    \A k \in 1 .. Len(table) :
        \E j \in 1 .. Len(grid.r_multipliers) :
            table[k].r = TimesBase(grid, grid.r_multipliers[j])

\* one iteration is one new attempt: a row or a failure, never both, and no
\* earlier row or failure is touched
OneAttemptPerIteration ==
    (pc = "sweep" /\ pc' = "sweep") =>
        /\ current' = current + 1
        /\ \/ /\ Len(table') = Len(table) + 1
              /\ SubSeq(table', 1, Len(table)) = table
              /\ warnings' = warnings
           \/ /\ Len(warnings') = Len(warnings) + 1
              /\ SubSeq(warnings', 1, Len(warnings)) = warnings
              /\ table' = table

(***************************************************************************)
(* C24: optimize_parameters attempts every element of the Cartesian        *)
(* product of its candidate lists exactly once, never retries a failed     *)
(* combination, and terminates; when it returns, rows plus failures are    *)
(* the product of the list lengths and every row's r is base_r times a     *)
(* multiplier.                                                             *)
(***************************************************************************)
C24_SweepAttemptsProductOnceAndEnds ==
    /\ [](Len(table) + Len(warnings) = current /\ current <= total_combinations(grid))
    /\ [](pc = "done" => /\ EveryElementAttemptedOnce
                         /\ Len(table) + Len(warnings)
                              = Len(grid.nir_values) * Len(grid.germ_values)
                                  * Len(grid.gert_values) * Len(grid.p_values)
                                  * Len(grid.r_multipliers)
                         /\ RowsHoldScaledRate)
    /\ [][OneAttemptPerIteration]_vars
    /\ <>(pc = "done")

\* a finished sweep of several combinations with rows and failures, whose rows
\* hold different rates
C24_Witness ==
    /\ pc = "done"
    /\ Len(warnings) >= 1
    /\ \E j, k \in 1 .. Len(table) : table[j].r # table[k].r

-----------------------------------------------------------------------------
(* parse_vcf_header (io.py lines 11-27).  A file is a sequence of lines, a  *)
(* line the sequence of its tab-separated fields after strip(); what a     *)
(* line starts with is read off its first field.                           *)

MaxLines == 3

FixedColumns == <<"#CHROM", "POS", "ID", "REF", "ALT", "QUAL", "FILTER", "INFO", "FORMAT">>

HeaderLine(samples) == FixedColumns \o samples

DataLine(chrom, pos, gts) == <<chrom, pos, ".", "A", "T", "60", "PASS", ".", "GT">> \o gts

\* line.startswith('#CHROM')
StartsWithChrom(line) == line[1] = "#CHROM"

\* line.startswith('#')
StartsWithHash(line) == line[1] \in {"#CHROM", "##fileformat=VCFv4.2", "##contig=<ID=1>", "#"}

\* header_fields[8:], one column early
HeaderSamples_FromFormat(line) == SubSeq(line, 9, Len(line))

\* line 21: header_fields[9:]
HeaderSamples(line) == SubSeq(line, 10, Len(line))

\* lines 18-25 from line k on: the first #CHROM line ends the loop, a line
\* that is no comment raises, the end of the file leaves samples = []
RECURSIVE ScanHeader(_, _)
ScanHeader(lines, k) ==
    IF k > Len(lines) THEN [raised |-> "none", samples |-> <<>>]
    ELSE IF StartsWithChrom(lines[k])
    THEN [raised |-> "none", samples |-> HeaderSamples(lines[k])]
    ELSE IF ~ StartsWithHash(lines[k])
    THEN [raised |-> "ValueError", samples |-> <<>>]
    ELSE ScanHeader(lines, k + 1)

parse_vcf_header(lines) == ScanHeader(lines, 1)

ParseVcfHeader ==
    /\ pc = "header"
    /\ LET out == parse_vcf_header(vcf)
       IN  /\ sample_names' = out.samples
           /\ raised' = out.raised
           /\ pc' = IF out.raised = "none" THEN "parsed" ELSE "raised"
    /\ UNCHANGED <<params, geno, marker_dict, model, chromPos, results, nil_calls,
                   nanPath, vcf, marker_info, summary_stats>>
    /\ UNCHANGED gridVars

NextHeader == ParseVcfHeader

\* the lines a file is made of: metadata, a bare comment, header lines with
\* three, two and no samples and one cut short, data lines, an empty line
VcfLines ==
    { <<"##fileformat=VCFv4.2">>, <<"#">>,
      HeaderLine(<<"sample1", "sample2", "sample3">>),
      HeaderLine(<<"sample2", "sample1">>),
      HeaderLine(<<>>),
      <<"#CHROM", "POS", "ID">>,
      DataLine("1", "1000", <<"0/0", "0/1", "1/1">>),
      DataLine("2", "500", <<"./.", "1/1">>),
      <<"">> }

VcfFiles == UNION { [1 .. n -> VcfLines] : n \in 0 .. MaxLines }

InitHeader ==
    /\ pc = "header"
    /\ params = DefaultParams
    /\ geno = <<>>
    /\ marker_dict = <<>>
    /\ model = NoModel
    /\ chromPos = 0
    /\ results = <<>>
    /\ nil_calls = <<>>
    /\ raised = "none"
    /\ nanPath = NoNanPath
    /\ grid = NoGrid
    /\ current = 0
    /\ table = <<>>
    /\ warnings = <<>>
    /\ groups = NoGroups
    /\ best_params = NoBest
    /\ vcf \in VcfFiles
    /\ sample_names = <<>>
    /\ marker_info = <<>>
    /\ summary_stats = <<>>

SpecHeader == InitHeader /\ [][NextHeader]_vars

\* the positions of the file's #CHROM lines and of its lines that are no comment
ChromLines == { k \in 1 .. Len(vcf) : vcf[k][1] = "#CHROM" }

NonCommentLines ==
    { k \in 1 .. Len(vcf) : vcf[k][1] \notin {"#CHROM", "##fileformat=VCFv4.2", "##contig=<ID=1>", "#"} }

Earliest(S) == CHOOSE k \in S : \A other \in S : k <= other

\* the fields of a line from the tenth on, one by one
FromTenth(line) == [j \in 1 .. (IF Len(line) > 9 THEN Len(line) - 9 ELSE 0) |-> line[j + 9]]

(***************************************************************************)
(* C25: parse_vcf_header returns the fields from the tenth on, in order,   *)
(* of the first #CHROM line when no non-comment line comes before it; when *)
(* a non-comment line comes before any #CHROM line it raises ValueError;   *)
(* and the names it returns are never taken from a data line.              *)
(***************************************************************************)
C25_HeaderSamplesOrValueError ==
    pc # "header" =>
        LET dataFirst == /\ NonCommentLines # {}
                         /\ \A h \in ChromLines : Earliest(NonCommentLines) < h
        IN  /\ dataFirst => pc = "raised" /\ raised = "ValueError" /\ sample_names = <<>>
            /\ (~ dataFirst /\ ChromLines # {}) =>
                   /\ pc = "parsed"
                   /\ sample_names = FromTenth(vcf[Earliest(ChromLines)])
            /\ \A k \in NonCommentLines :
                   sample_names # <<>> => sample_names # FromTenth(vcf[k])

\* a header of several samples found after a metadata line and before a data
\* line
C25_Witness ==
    /\ pc = "parsed"
    /\ Len(sample_names) >= 2
    /\ Earliest(ChromLines) > 1
    /\ \E k \in NonCommentLines : k > Earliest(ChromLines) /\ Len(vcf[k]) > 9

-----------------------------------------------------------------------------
(* call_intros of File_S11_callIntrogressions.py, the function that         *)
(* introgression_hmm was refactored from: its own matrices (lines 51-99),  *)
(* model (lines 107-116), chromosome loop (lines 119-126) and packing      *)
(* (lines 135-139).  numpy and hmmlearn behave as they do for core.py.     *)

\* lines 60-80: the divisors f_1 + f_2, f_0 + f_2 and f_0 + f_1
call_intros_ZeroDivision(prm) ==
    LET f0 == Den - prm.f_1 - prm.f_2
    IN  prm.f_1 + prm.f_2 = 0 \/ f0 + prm.f_2 = 0 \/ f0 + prm.f_1 = 0

\* lines 51-87, row by row
call_intros_tmat(prm) ==
    LET r == prm.r  f1 == prm.f_1  f2 == prm.f_2  f0 == Den - prm.f_1 - prm.f_2
        stay == Frac(Den - r, Den)
    IN  IF r = NaN THEN [i \in States |-> [j \in States |-> NaNFrac]]
        ELSE (0 :> (0 :> stay @@ 1 :> Frac(r * f1, Den * (f1 + f2))
                      @@ 2 :> Frac(r * f2, Den * (f1 + f2))))
          @@ (1 :> (0 :> Frac(r * f0, Den * (f0 + f2)) @@ 1 :> stay
                      @@ 2 :> Frac(r * f2, Den * (f0 + f2))))
          @@ (2 :> (0 :> Frac(r * f0, Den * (f0 + f1))
                      @@ 1 :> Frac(r * f1, Den * (f0 + f1)) @@ 2 :> stay))

\* lines 97-99, entry by entry, as numerators over EmiDen
call_intros_emimat(prm) ==
    LET nir == prm.nir  germ == prm.germ  gert == prm.gert  p == prm.p
        keep == Den - prm.mr
        miss == 2 * prm.mr * Den * Den * Den
    IN  (0 :> (0 :> 2 * (Den - germ) * keep * Den * Den
                 @@ 1 :> 2 * p * germ * keep * Den
                 @@ 2 :> 2 * (Den - p) * germ * keep * Den
                 @@ 3 :> miss))
     @@ (1 :> (0 :> ((Den - nir) * gert * Den + 2 * nir * (Den - germ) * Den) * keep
                 @@ 1 :> (2 * (Den - nir) * (Den - gert) * Den + 2 * nir * germ * p) * keep
                 @@ 2 :> ((Den - nir) * gert * Den + 2 * nir * germ * (Den - p)) * keep
                 @@ 3 :> miss))
     @@ (2 :> (0 :> (2 * (Den - nir) * germ * (Den - p) + 2 * nir * (Den - germ) * Den) * keep
                 @@ 1 :> 2 * germ * p * keep * Den
                 @@ 2 :> (2 * (Den - nir) * (Den - germ) * Den
                            + 2 * nir * germ * (Den - p)) * keep
                 @@ 3 :> miss))

\* lines 107-116
call_intros_model(prm) ==
    IF call_intros_ZeroDivision(prm) THEN NoModel
    ELSE [built         |-> TRUE,
          startprob_    |-> (0 :> Den - prm.f_1 - prm.f_2) @@ (1 :> prm.f_1) @@ (2 :> prm.f_2),
          transmat_     |-> call_intros_tmat(prm),
          emissionprob_ |-> call_intros_emimat(prm)]

\* lines 15-18, geno_mat being the chromosome's columns of every row
call_intros_one_chrom(i, hmm_model, geno_mat, oracle) ==
    Predict(hmm_model, geno_mat[i], oracle)

\* lines 135-139 for individual i: chromosomes 1 .. k side by side
RECURSIVE call_intros_pack(_, _, _)
call_intros_pack(res, i, k) ==
    IF k = 0 THEN <<>> ELSE call_intros_pack(res, i, k - 1) \o res[k][i]

\* lines 118-143 with return_calls = True
call_intros(g, md, prm, oracle) ==
    IF call_intros_ZeroDivision(prm) THEN [raised |-> "ZeroDivisionError", calls |-> <<>>]
    ELSE LET m   == call_intros_model(prm)
             bad == FirstRaising(m, g, md, 1)
         IN  IF bad # 0
             THEN [raised |-> ChromRaises(m, g, md, bad), calls |-> <<>>]
             ELSE IF Len(g) = 0 THEN [raised |-> "ValueError", calls |-> <<>>]
             ELSE LET res == [chr \in 1 .. NumChroms |->
                                 LET geno_current_chr ==
                                         [i \in 1 .. Len(g) |-> RestrictRow(g[i], md[chr])]
                                 IN  [i \in 1 .. Len(g) |->
                                         call_intros_one_chrom(i, m, geno_current_chr,
                                                               oracle)]]
                  IN  [raised |-> "none",
                       calls |-> [i \in 1 .. Len(g) |-> call_intros_pack(res, i, NumChroms)]]

(***************************************************************************)
(* C26: on the same genotype matrix, grouping and eight parameters,        *)
(* introgression_hmm and call_intros build the same start, transition and  *)
(* emission matrices, and introgression_hmm returns the call matrix that   *)
(* call_intros returns, or both raise.                                     *)
(***************************************************************************)
C26_RefactorKeepsMatricesAndCalls ==
    /\ pc # "build" =>
           /\ model.built = call_intros_model(params).built
           /\ model.built =>
                  /\ model.startprob_ = call_intros_model(params).startprob_
                  /\ \A i \in States : \A j \in States :
                         SameFrac(model.transmat_[i][j],
                                  call_intros_model(params).transmat_[i][j].n,
                                  call_intros_model(params).transmat_[i][j].d)
                  /\ model.emissionprob_ = call_intros_model(params).emissionprob_
    /\ pc \in {"returned", "raised"} =>
           LET old == call_intros(geno, marker_dict, params, nanPath)
           IN  /\ (pc = "returned") = (old.raised = "none")
               /\ pc = "returned" => nil_calls = old.calls
               /\ pc = "raised" => raised = old.raised

\* a returned call matrix of two individuals that holds all three states
C26_Witness ==
    /\ pc = "returned"
    /\ Len(nil_calls) = 2
    /\ \A s \in States : \E i \in 1 .. 2 : \E j \in 1 .. Len(nil_calls[i]) :
           nil_calls[i][j] = s

-----------------------------------------------------------------------------
\* missing rates strictly between 0 and 1 to run the same input again with
OtherMissingRates == {1, 50, 99}

(***************************************************************************)
(* C27: the outcome of a decoding run does not depend on the missing rate: *)
(* a run with mr strictly between 0 and 1 returns the call matrix (or      *)
(* raises the exception) that the same genotype matrix, grouping and other *)
(* seven parameters give with any other mr strictly between 0 and 1.       *)
(***************************************************************************)
C27_CallsDoNotDependOnMissingRate ==
    (pc \in {"returned", "raised"} /\ params.mr > 0 /\ params.mr < Den) =>
        \A mr2 \in OtherMissingRates :
            LET other == IntrogressionHmm(geno, marker_dict,
                                          [params EXCEPT !.mr = mr2], nanPath)
            IN  /\ (pc = "returned") = (other.raised = "none")
                /\ pc = "returned" => nil_calls = other.calls
                /\ pc = "raised" => raised = other.raised

\* a returned matrix with more than one state, decoded from a row that has a
\* missing call between observed ones
C27_Witness ==
    /\ pc = "returned"
    /\ params.mr > 0 /\ params.mr < Den
    /\ \E i \in 1 .. Len(geno) :
           /\ \E j \in 1 .. Len(geno[i]) : geno[i][j] = 3
           /\ \E j \in 1 .. Len(geno[i]) : geno[i][j] \in {1, 2}
           /\ \E j, k \in 1 .. Len(nil_calls[i]) : nil_calls[i][j] # nil_calls[i][k]

-----------------------------------------------------------------------------
(* read_vcf (io.py lines 30-139) and call_introgressions (core.py lines    *)
(* 128-195): a file is read, decoded and written.  A line is the sequence  *)
(* of its fields as above; int() is the table of the texts that occur.     *)

\* int(chrom.replace('chr', '')) of the texts that are numbers
ChromNumber ==
    [t \in {"1", "2", "3", "4", "5", "6", "7", "8", "9", "10", "11", "chr1", "chr2"} |->
        CASE t \in {"1", "chr1"} -> 1
          [] t \in {"2", "chr2"} -> 2
          [] t = "3" -> 3   [] t = "4" -> 4   [] t = "5" -> 5   [] t = "6" -> 6
          [] t = "7" -> 7   [] t = "8" -> 8   [] t = "9" -> 9   [] t = "10" -> 10
          [] OTHER -> 11]

\* the POS texts of the files below, in file order
PosTexts == <<"100", "200", "300", "400", "500", "600", "700", "800", "900", "1000",
              "1100", "1200">>

\* int(fields[1]) of the texts that are numbers
PosNumber ==
    [t \in {PosTexts[k] : k \in 1 .. Len(PosTexts)} \cup {"1000", "500"} |->
        IF t = "500" THEN 500
        ELSE 100 * (CHOOSE k \in 1 .. Len(PosTexts) : PosTexts[k] = t)]

\* lines 101-110
GenoCode(gt_call) ==
    CASE gt_call \in {"./.", ".", ".|."} -> 3
      [] gt_call \in {"0/0", "0|0"} -> 0
      [] gt_call \in {"0/1", "1/0", "0|1", "1|0"} -> 1
      [] gt_call \in {"1/1", "1|1"} -> 2
      [] OTHER -> 3

\* lines 79-85: the line is kept
InTargetList(line, chromosomes) ==
    /\ line[1] \in DOMAIN ChromNumber
    /\ ChromNumber[line[1]] \in chromosomes

\* lines 66-69: the data lines, in file order
RECURSIVE DataLines(_, _)
DataLines(lines, k) ==
    IF k > Len(lines) THEN <<>>
    ELSE IF StartsWithHash(lines[k]) THEN DataLines(lines, k + 1)
    ELSE <<lines[k]>> \o DataLines(lines, k + 1)

\* the lines that pass the chromosome filter, in file order
RECURSIVE KeptLines(_, _, _)
KeptLines(data, chromosomes, k) ==
    IF k > Len(data) THEN <<>>
    ELSE IF InTargetList(data[k], chromosomes)
    THEN <<data[k]>> \o KeptLines(data, chromosomes, k + 1)
    ELSE KeptLines(data, chromosomes, k + 1)

\* what the loop of lines 65-118 raises: a data line too short for the
\* fields it reads, or a POS that is no number
ReadLoopRaises(data, chromosomes) ==
    IF \E k \in 1 .. Len(data) :
           \/ Len(data[k]) < 5
           \/ InTargetList(data[k], chromosomes) /\ Len(data[k]) < 9
    THEN "IndexError"
    ELSE IF \E k \in 1 .. Len(data) :
                \/ data[k][2] \notin DOMAIN PosNumber
                \/ InTargetList(data[k], chromosomes) /\ data[k][9] # "GT"
    THEN "ValueError"
    ELSE "none"

\* lines 122-126: for each requested chromosome the indices of its rows of
\* marker_df, ascending
marker_dict_of(kept, chromosomes) ==
    [chrom \in chromosomes |->
        LET RECURSIVE Indices(_)
            Indices(j) ==
                IF j > Len(kept) THEN <<>>
                ELSE IF ChromNumber[kept[j][1]] = chrom
                THEN <<j>> \o Indices(j + 1)
                ELSE Indices(j + 1)
        IN  Indices(1)]

\* lines 30-139
read_vcf(lines, chromosomes) ==
    LET head == parse_vcf_header(lines)
        data == DataLines(lines, 1)
        kept == KeptLines(data, chromosomes, 1)
        none == [geno_matrix |-> <<>>, marker_dict |-> <<>>, sample_names |-> <<>>,
                 marker_info |-> <<>>]
    IN  IF head.raised # "none" THEN [raised |-> head.raised] @@ none
        ELSE IF ReadLoopRaises(data, chromosomes) # "none"
        THEN [raised |-> ReadLoopRaises(data, chromosomes)] @@ none
        ELSE IF \E k \in 1 .. Len(kept) : Len(kept[k]) # Len(kept[1])
        THEN [raised |-> "ValueError"] @@ none
        ELSE IF Len(kept) = 0 THEN [raised |-> "KeyError"] @@ none
        ELSE [raised       |-> "none",
              geno_matrix  |-> [i \in 1 .. Len(kept[1]) - 9 |->
                                   [j \in 1 .. Len(kept) |-> GenoCode(kept[j][9 + i])]],
              marker_dict  |-> marker_dict_of(kept, chromosomes),
              sample_names |-> head.samples,
              marker_info  |-> [j \in 1 .. Len(kept) |->
                                   [CHROM |-> ChromNumber[kept[j][1]],
                                    POS   |-> PosNumber[kept[j][2]]]]]

\* core.py lines 161-171: coverage_level "low" over the defaults of
\* introgression_hmm
LowCoverageParams == Prm(2, 8, 15, 50, 20, 1, 25, 5)

\* core.py line 157, read_vcf with its default chromosomes 1-10
ReadVcf ==
    /\ pc = "read"
    /\ LET out == read_vcf(vcf, 1 .. NumChroms)
       IN  /\ geno' = out.geno_matrix
           /\ marker_dict' = out.marker_dict
           /\ sample_names' = out.sample_names
           /\ marker_info' = out.marker_info
           /\ raised' = out.raised
           /\ pc' = IF out.raised = "none" THEN "decode" ELSE "raised"
    /\ UNCHANGED <<params, model, chromPos, results, nil_calls, nanPath, vcf,
                   summary_stats>>
    /\ UNCHANGED gridVars

\* core.py lines 174-178: the call of introgression_hmm
CallHmm ==
    /\ pc = "decode"
    /\ LET out == IntrogressionHmm(geno, marker_dict, params, nanPath)
       IN  /\ nil_calls' = out.calls
           /\ raised' = out.raised
           /\ pc' = IF out.raised = "none" THEN "write" ELSE "raised"
    /\ model' = BuildModel(params)
    /\ UNCHANGED <<params, geno, marker_dict, chromPos, results, nanPath>>
    /\ UNCHANGED gridVars
    /\ UNCHANGED ioVars

NextCall == ReadVcf \/ CallHmm \/ WriteResults

\* io.py lines 166-169: the column labels of the written frame, a label
\* CHROM_POS as the pair it is formatted from
marker_names(info) == [j \in 1 .. Len(info) |-> <<info[j].CHROM, info[j].POS>>]

\* the chromosome of each record of a file, record by record
ChromOrders ==
    { <<"1", "2", "3", "4", "5", "6", "7", "8", "9", "10">>,
      <<"chr1", "chr2", "3", "4", "5", "6", "7", "8", "9", "10">>,
      <<"1", "1", "2", "3", "4", "5", "6", "7", "8", "9", "10">>,
      <<"1", "X", "2", "3", "4", "5", "6", "7", "8", "9", "10", "11">>,
      <<"2", "1", "3", "4", "5", "6", "7", "8", "9", "10">>,       \* out of order
      <<"10", "1", "2", "3", "4", "5", "6", "7", "8", "9">>,       \* out of order
      <<"1", "2", "1", "3", "4", "5", "6", "7", "8", "9", "10">>,  \* interleaved
      <<"1", "2", "3", "4", "5", "6", "7", "8", "9">>,             \* no chromosome 10
      <<"X", "11">> }                                              \* nothing is kept

\* a file of two samples: the first is donor at record donorAt only, the
\* second heterozygous at record hetAt and missing at record donorAt
CallFile(order, donorAt, hetAt) ==
    << <<"##fileformat=VCFv4.2">>, HeaderLine(<<"sample1", "sample2">>) >>
      \o [k \in 1 .. Len(order) |->
             DataLine(order[k], PosTexts[k],
                      << IF k = donorAt THEN "1/1" ELSE "0/0",
                         IF k = hetAt THEN "0|1"
                         ELSE IF k = donorAt THEN "./." ELSE "0/0" >>)]

CallFiles ==
    { CallFile(order, donorAt, hetAt) :
          order \in ChromOrders, donorAt \in 1 .. 3, hetAt \in 1 .. 4 }
      \cup { << DataLine("1", "100", <<"0/0", "0/1">>) >>,
             << HeaderLine(<<"sample1">>), <<"">> >>,
             << HeaderLine(<<"sample1">>), DataLine("1", "100", <<"0/0">>),
                DataLine("2", "200", <<"0/0", "1/1">>) >> }

InitCall ==
    /\ pc = "read"
    /\ params = LowCoverageParams
    /\ geno = <<>>
    /\ marker_dict = <<>>
    /\ model = NoModel
    /\ chromPos = 0
    /\ results = <<>>
    /\ nil_calls = <<>>
    /\ raised = "none"
    /\ nanPath = NoNanPath
    /\ grid = NoGrid
    /\ current = 0
    /\ table = <<>>
    /\ warnings = <<>>
    /\ groups = NoGroups
    /\ best_params = NoBest
    /\ vcf \in CallFiles
    /\ sample_names = <<>>
    /\ marker_info = <<>>
    /\ summary_stats = <<>>

SpecCall == InitCall /\ [][NextCall]_vars

\* the state the marker of row j of marker_info was decoded to for
\* individual i: its place in the run of its chromosome
DecodedStateOfMarker(i, j) ==
    LET chrom == marker_info[j].CHROM
        k     == CHOOSE k \in 1 .. Len(marker_dict[chrom]) : marker_dict[chrom][k] = j
    IN  Predict(model, RestrictRow(geno[i], marker_dict[chrom]), nanPath)[k]

\* marker_dict has every requested chromosome as a key and holds every
\* column in one place only
DictCoversColumnsOnce ==
    /\ DOMAIN marker_dict = 1 .. NumChroms
    /\ \A j \in 1 .. NumCols(geno) :
           Cardinality({ ck \in { <<c, k>> : c \in 1 .. NumChroms, k \in 1 .. NumCols(geno) } :
                            /\ ck[2] <= Len(marker_dict[ck[1]])
                            /\ marker_dict[ck[1]][ck[2]] = j }) = 1
    /\ \A c \in 1 .. NumChroms : \A k \in 1 .. Len(marker_dict[c]) :
           marker_dict[c][k] \in 1 .. NumCols(geno)

(***************************************************************************)
(* C28: after call_introgressions has written its results, column j of    *)
(* the written call matrix, labelled with the CHROM_POS of row j of        *)
(* marker_info, holds for every individual the state that marker was       *)
(* decoded to, whatever the order of the records in the file; and what     *)
(* read_vcf returns as marker_dict has a key for every requested           *)
(* chromosome and covers each column exactly once.                         *)
(***************************************************************************)
C28_ColumnsHoldTheirLabelledMarker ==
    /\ pc \in {"decode", "write", "written"} => DictCoversColumnsOnce
    /\ pc = "written" =>
           /\ Len(marker_names(marker_info)) = NumCols(nil_calls)
           /\ \A i \in 1 .. Len(nil_calls) : \A j \in 1 .. Len(marker_info) :
                  nil_calls[i][j] = DecodedStateOfMarker(i, j)

\* read_vcf's part of the claim on its own
C28_DictPart == pc \in {"decode", "write", "written"} => DictCoversColumnsOnce

\* the records of the file are in chromosome order
RecordsInChromOrder ==
    \A j \in 1 .. Len(marker_info) - 1 : marker_info[j].CHROM <= marker_info[j + 1].CHROM

\* the columns are labelled with their markers when the file is sorted
C28_SortedPart ==
    (pc = "written" /\ RecordsInChromOrder) =>
        \A i \in 1 .. Len(nil_calls) : \A j \in 1 .. Len(marker_info) :
            nil_calls[i][j] = DecodedStateOfMarker(i, j)

C28_SortedWitness ==
    /\ pc = "written" /\ RecordsInChromOrder
    /\ \E i \in 1 .. Len(nil_calls) : \E j \in 1 .. Len(marker_info) : nil_calls[i][j] = 2

-----------------------------------------------------------------------------
\* the sweep is over and every combination of it failed
EverythingFailed == pc = "done" /\ Len(warnings) = current /\ current > 0

\* a step of the sweep neither raises nor leaves the function
SweepKeepsGoing == pc = "sweep" => (pc' \in {"sweep", "done"} /\ raised' = "none")

\* a selection on a frame without rows ends in an error
EmptySelectionRaises ==
    (pc = "done" /\ table = <<>>) =>
        (pc' = "raised" /\ raised' \in {"KeyError", "ValueError"}
           /\ best_params' = NoBest)

(***************************************************************************)
(* C29: a sweep whose every combination fails returns an empty table and   *)
(* raises nothing; select_best_parameters on an empty table, or with a     *)
(* criterion other than donor_rate, het_rate and balanced, ends in an      *)
(* error without a parameter record, and a record it does return holds the *)
(* parameters of a row of the table.                                       *)
(***************************************************************************)
C29_FailedSweepReturnsAndSelectionRaises ==
    /\ [](EverythingFailed => (table = <<>> /\ raised = "none"))
    /\ [][SweepKeepsGoing]_vars
    /\ <>(pc # "sweep")
    /\ [][EmptySelectionRaises]_vars
    /\ [](pc = "raised" => best_params = NoBest)
    /\ [](pc = "selected" =>
              /\ best_params.criteria \in {"donor_rate", "het_rate", "balanced"}
              /\ \E k \in 1 .. Len(table) : RowParams(table[k]) = RowParams(best_params))

\* the selection has raised KeyError on the empty table of a sweep of several
\* combinations that all failed
C29_Witness ==
    /\ pc = "raised" /\ raised = "KeyError"
    /\ table = <<>>
    /\ Len(warnings) = total_combinations(grid) /\ Len(warnings) >= 2

-----------------------------------------------------------------------------
\* a cell that is no observed call, read as the missing symbol
AsMissing(cell) == IF cell \in {0, 1, 2, 3} THEN cell ELSE 3

\* the chromosomes decoded so far gave what they give with every cell that
\* is not 0, 1, 2 or 3 read as the missing symbol
NonCallsDecodedAsMissing ==
    \A chrom \in DOMAIN results :
        results[chrom] # <<>> =>
            \A i \in 1 .. Len(geno) :
                LET row == RestrictRow(geno[i], marker_dict[chrom])
                IN  results[chrom][i]
                      = Predict(model, [k \in 1 .. Len(row) |-> AsMissing(row[k])], nanPath)

(***************************************************************************)
(* C30: a genotype cell that is not 0, 1, 2 or 3 (NaN, a negative value, a *)
(* value above 3) is rejected with an error or decoded through the         *)
(* missing-symbol emission column 3, never through the emission column of  *)
(* an observed call 0, 1 or 2: every decoded chromosome holds the states   *)
(* it gets with such cells read as 3, and the symbol the cell is turned    *)
(* into is 3.                                                              *)
(***************************************************************************)
C30_NonCallsNeverDecodedAsObserved ==
    /\ NonCallsDecodedAsMissing
    /\ \A chrom \in DOMAIN results :
           results[chrom] # <<>> =>
               \A i \in 1 .. Len(geno) : \A k \in 1 .. Len(marker_dict[chrom]) :
                   LET cell == geno[i][marker_dict[chrom][k]]
                   IN  cell \notin {0, 1, 2, 3} => OneHotIndex(cell) = 3

=============================================================================
